---- MODULE Spec2Model ----
(***************************************************************************)
(* Presence / synchronisation layer of the collaborative document editor. *)
(*                                                                         *)
(*   server (Redis-backed)  : the Socket.IO handlers and REST routes of    *)
(*                            src/unnamed/part_005 over the helpers of     *)
(*                            src/server/utils/redis.js                    *)
(*   socket handlers (local): src/unnamed/part_001, which keeps the        *)
(*                            module-level maps documentRooms/userCursors  *)
(*                                                                         *)
(* A handler is an async function.  The code between two awaits runs       *)
(* atomically on the event loop; a handler suspended at an await is a      *)
(* task record.  Commands sent through the one Redis client are executed   *)
(* and answered in the order they were issued, so the tasks waiting for    *)
(* Redis form a FIFO queue (redisQ).  Calls to the database (Supabase) are *)
(* independent HTTP requests and complete in any order (dbPending).        *)
(*                                                                         *)
(* Socket.IO runs the 'disconnect' listeners after the socket has left all *)
(* its rooms (Socket._onclose: 'disconnecting', leaveAll, connected =      *)
(* false, then 'disconnect'), so socket.rooms is empty inside them.        *)
(***************************************************************************)
EXTENDS Integers, Sequences, FiniteSets, TLC

\* ------------------------------------------------------------ universe
Sockets  == {"s1", "s2"}
Users    == {"u1", "u2"}
Docs     == {"d1", "d2"}
NoUser   == "none"
NoDoc    == "none"
NoName   == ""

\* the clients: each is logged in as one user, two of them possibly as the same
OwnLogins == [s \in Sockets |-> IF s = "s1" THEN "u1" ELSE "u2"]
Logins == {OwnLogins, [s \in Sockets |-> "u1"]}

\* the server processes (nodes) behind the load balancer; they share Redis
\* and the database
Nodes == {"n1", "n2"}
OneNode == [s \in Sockets |-> "n1"]
TwoNodes == [s \in Sockets |-> IF s = "s1" THEN "n1" ELSE "n2"]

\* the username a client sends along with a userId in user:join
NameOf(u) == IF u = "u1" THEN "alice" ELSE IF u = "u2" THEN "bob" ELSE NoName

\* ------------------------------------------------------------ bounds
\* handlers that may be suspended at the same time
MaxInFlight == 2
\* latest clock value (seconds) from which time still advances
MaxTime == 360
\* chat rows the database accepts, document versions a client writes
MaxChat == 2
MaxVersion == 2

\* ------------------------------------------------------------ program constants
\* redis.js: expire(presenceKey, 300), expire(userKey, 300)
PresenceTTL == 300
\* redis.js: expire(cursorKey, 60)
CursorTTL == 60
\* redis.js: maxAge = 60000 ms in getDocumentCursors
CursorMaxAgeMs == 60000
\* redis.js: setEx(cacheKey, 300, ...)
CacheTTL == 300
\* server: Date.now() - cachedDoc.cachedAt < 300000
CacheMaxAgeMs == 300000
\* a key without expiry
NoTTL == -1

VARIABLES
  now,            \* wall clock, seconds
  clientUser,     \* socket -> the user its client is logged in as
  redisClient,    \* TRUE iff initRedis connected (redisClient is not null)
  node,           \* socket -> the server process it is connected to
  subscriptions,  \* node -> documents whose channels it has subscribed to
  connected,      \* socket -> BOOLEAN
  userId,         \* socket -> socket.userId
  username,       \* socket -> socket.username
  rooms,          \* socket -> socket.rooms (<<"sid", s>> and <<"doc", d>>)
  rPresence,      \* doc -> key doc:{id}:presence
  rUserInfo,      \* user -> key user:{id}:info
  rCursors,       \* doc -> key doc:{id}:cursors
  rCache,         \* doc -> key doc:{id}:cache
  redisQ,         \* tasks awaiting a Redis reply, in issue order
  dbPending,      \* tasks awaiting a database reply
  dbActive,       \* users.is_active
  dbContent,      \* documents.content (a version number)
  dbChat,         \* chat_messages rows, in insertion order
  documentRooms,  \* part_001: Map documentId -> Set of userId
  userCursors,    \* part_001: Map documentId -> Map userId -> cursor
  emitted,        \* the events the last step sent: set of event records
  last,           \* the handler step that was taken last
  hist            \* history kept for stating the properties

vars == <<now, clientUser, redisClient, node, subscriptions, connected, userId, username, rooms, rPresence,
          rUserInfo, rCursors, rCache, redisQ, dbPending, dbActive, dbContent,
          dbChat, documentRooms, userCursors, emitted, last, hist>>

sockVars  == <<connected, userId, username, rooms>>
redisVars == <<rPresence, rUserInfo, rCursors, rCache>>
dbVars    == <<dbActive, dbContent, dbChat>>
localVars == <<documentRooms, userCursors>>

\* ------------------------------------------------------------ helpers
Min(S) == CHOOSE x \in S : \A y \in S : x <= y

\* Date.now(): milliseconds
DateNow == now * 1000

\* the room name `doc:${documentId}` and the socket's own room
DocRoom(d) == <<"doc", d>>
SidRoom(s) == <<"sid", s>>

\* rooms.filter(room => room.startsWith('doc:')).map(room => room.substring(4))
DocRoomsOf(rs) == {r[2] : r \in {x \in rs : x[1] = "doc"}}

\* ------------------------------------------------------------ events
\* a cursor as the handlers build it; NoCursor stands for "no entry"
Positions == {1, 2}
NoCursor == [userId |-> NoUser, username |-> NoName, position |-> 0, timestamp |-> 0]
NoCursors == [u \in Users |-> NoCursor]

\* a row of chat_messages; NoRow stands for "no row"
NoRow == [id |-> 0, document_id |-> NoDoc, user_id |-> NoUser, message |-> 0,
          created_at |-> 0]

Event(to, ev, uid, uname, users, cursors, content, msg) ==
  [to |-> to, ev |-> ev, userId |-> uid, username |-> uname, users |-> users,
   cursors |-> cursors, content |-> content, msg |-> msg]

\* an emit through io.to(room), which also reaches the sender
ToRoomExcept_WithSender(s, room) ==
  {t \in Sockets : room \in rooms[t] /\ node[t] = node[s]}

\* socket.to(room).emit(...): every socket of the sender's server that is in
\* the room, except the sender (the server uses the in-memory adapter)
ToRoomExcept(s, room) ==
  {t \in Sockets \ {s} : room \in rooms[t] /\ node[t] = node[s]}
\* io.to(room).emit(...): every socket of server n that is in the room
ToRoom(n, room) == {t \in Sockets : room \in rooms[t] /\ node[t] = n}
\* socket.emit(...): the socket itself, while its transport is open
ToSelf(s) == IF connected[s] THEN {s} ELSE {}

\* ------------------------------------------------------------ Redis keys
\* JSON.stringify / JSON.parse of the values the helpers store
JSONStringify(v) == <<"json", v>>
JSONValid(str) == str[1] = "json"
JSONParse(str) == str[2]

\* a set key: absent when it has no members
NoSetKey == [members |-> {}, exp |-> NoTTL]
\* a user-info hash: absent when it has no id field
NoInfoKey == [id |-> NoUser, username |-> NoName, lastSeen |-> 0, exp |-> NoTTL]
\* a cursors hash: field userId -> json string
NoField == <<"nil">>
NoHashKey == [fields |-> [u \in Users |-> NoField], exp |-> NoTTL]
\* a string key
NoStrKey == [val |-> NoField, exp |-> NoTTL]

\* Redis drops a key once its expiry time has been reached
Expired(k) == k.exp # NoTTL /\ k.exp <= now
ExpiredAt(k, t) == k.exp # NoTTL /\ k.exp <= t

\* SADD key member
SAdd(k, m) == [k EXCEPT !.members = @ \cup {m}]
\* a removal that deletes the whole key
SRem_DelKey(k, m) == NoSetKey
\* SREM key member: removing the last member removes the key
SRem(k, m) == IF k.members \ {m} = {} THEN NoSetKey
              ELSE [k EXCEPT !.members = @ \ {m}]
\* a count that answers 0, as the helper does without a client
SCard_Zero(k) == 0
\* SMEMBERS key, SCARD key
SMembers(k) == k.members
SCard(k) == Cardinality(k.members)
\* an EXPIRE that adds the seconds to the time the key had left
ExpireSet_Additive(k, ttl) ==
  IF k.members = {} THEN k
  ELSE [k EXCEPT !.exp = (IF @ = NoTTL THEN now ELSE @) + ttl]
\* EXPIRE key seconds: no effect on an absent key
ExpireSet(k, ttl) == IF k.members = {} THEN k ELSE [k EXCEPT !.exp = now + ttl]
ExpireInfo(k, ttl) == IF k.id = NoUser THEN k ELSE [k EXCEPT !.exp = now + ttl]
HashEmpty(k) == \A u \in Users : k.fields[u] = NoField
ExpireHash(k, ttl) == IF HashEmpty(k) THEN k ELSE [k EXCEPT !.exp = now + ttl]
\* HSET key {id, username, lastSeen}: keeps the key's expiry
HSetInfo(k, id, name, seen) ==
  [id |-> id, username |-> name, lastSeen |-> seen, exp |-> k.exp]
\* HSET key field value
HSet(k, f, v) == [k EXCEPT !.fields[f] = v]
\* HDEL key field: removing the last field removes the key
HDel(k, f) == LET h == [k EXCEPT !.fields[f] = NoField]
              IN IF HashEmpty(h) THEN NoHashKey ELSE h
\* SETEX key seconds value
SetEx(ttl, v) == [val |-> v, exp |-> now + ttl]

\* ------------------------------------------------------------ clock
\* Time passes; Redis removes the keys whose expiry has been reached.
TickSteps == {60, 240}

PurgeSet(k, t)  == IF ExpiredAt(k, t) THEN NoSetKey ELSE k
PurgeInfo(k, t) == IF ExpiredAt(k, t) THEN NoInfoKey ELSE k
PurgeHash(k, t) == IF ExpiredAt(k, t) THEN NoHashKey ELSE k
PurgeStr(k, t)  == IF ExpiredAt(k, t) THEN NoStrKey ELSE k

ExpireKeysAt(t) ==
  /\ rPresence' = [d \in Docs |-> PurgeSet(rPresence[d], t)]
  /\ rUserInfo' = [u \in Users |-> PurgeInfo(rUserInfo[u], t)]
  /\ rCursors' = [d \in Docs |-> PurgeHash(rCursors[d], t)]
  /\ rCache' = [d \in Docs |-> PurgeStr(rCache[d], t)]

\* ------------------------------------------------------------ tasks
\* A handler suspended at an await.  pc names the call it waits for; the
\* other fields are the handler's local variables and the arguments the
\* helper in progress was called with.  hBefore, hRooms, hStale, hAck, hTodo
\* and hSeq are history, not program state.
NoTask ==
  [kind |-> "none", pc |-> "none", sock |-> "none", doc |-> NoDoc,
   old |-> NoDoc, todo |-> {}, uid |-> NoUser, uname |-> NoName, ts |-> 0,
   uids |-> {}, users |-> {}, data |-> 0, res |-> 0, hBefore |-> {},
   hRooms |-> {}, hStale |-> {}, hAck |-> 0, hTodo |-> {}, hSeq |-> 0]

InFlight == Len(redisQ) + Cardinality(dbPending)

CanStart(s) == connected[s] /\ InFlight < MaxInFlight
\* a request, or a call of a helper, may begin
CanRequest == InFlight < MaxInFlight

\* the handlers of connection s that are suspended
PendingOf(s) ==
  {redisQ[i] : i \in {j \in DOMAIN redisQ : redisQ[j].sock = s}}
    \cup {t \in dbPending : t.sock = s}
\* hSeq of a change, cursor or chat handler: its place in the order in which
\* the connection submitted the events whose handlers are still suspended
\* (1 for the earliest; 0 for the other handlers).  When the connection
\* submits another event the places are counted anew.
Sequenced(s) == {t \in PendingOf(s) : t.hSeq > 0}
NextSeq(s) == 1 + Cardinality(Sequenced(s))
Renumbered(t, s) ==
  IF t.sock = s /\ t.hSeq > 0
  THEN [t EXCEPT !.hSeq = Cardinality({x \in Sequenced(s) : x.hSeq <= t.hSeq})]
  ELSE t
RenumberedQ(s) == [i \in DOMAIN redisQ |-> Renumbered(redisQ[i], s)]
RenumberedDb(s) == {Renumbered(t, s) : t \in dbPending}

\* the reply at the head of the Redis connection resumes its handler, which
\* runs until it has issued its next command (nxt) or ends (NoTask)
Resume(nxt) ==
  redisQ' = IF nxt = NoTask THEN Tail(redisQ) ELSE Append(Tail(redisQ), nxt)
Issue(t) == redisQ' = Append(redisQ, t)
AtHead(pc) ==
  /\ redisQ # <<>>
  /\ Head(redisQ).pc = pc

\* last records the steps the properties speak about, NoStep for the others
Step(h, pc, s, d) ==
  [h |-> h, pc |-> pc, sock |-> s, doc |-> d, pre |-> {}, users |-> {},
   cursors |-> NoCursors, n |-> 0, ack |-> 0, ret |-> "none"]
NoStep == Step("none", "none", "none", NoDoc)

\* ------------------------------------------------------------ history
\* hist.settled[s] = d: the connection completed a join of d and has since
\* started no join and not disconnected.
\* hist.written[d][u]: when the last addUserToDocument(d, u) returned; -1
\* after a removeUserFromDocument(d, u) and at the start.
\* A task's hBefore: the connections settled in the task's document ever since
\* the handler started.  A disconnect's hRooms: the document the socket was
\* settled in when it closed.  A join's hTodo: the steps of the leave sequence
\* the handler has not taken yet, as pairs <<old document, step>>.  A GET's
\* hTodo: <<document, "malformed">> when the cache held a malformed value.
Unsettle(q, s) ==
  [i \in DOMAIN q |->
     IF q[i].sock = s THEN q[i] ELSE [q[i] EXCEPT !.hBefore = @ \ {s}]]
SettledIn(d) == {a \in Sockets : hist.settled[a] = d}
SettledRooms(s) == {d \in Docs : hist.settled[s] = d /\ DocRoom(d) \in rooms[s]}

\* ------------------------------------------------------------ server: user:join
\* The client sends user:join {userId: user.id, username: user.username} once,
\* when its socket connects.
\* socket.on('user:join'): sets the identity, then awaits the database update
\* a user:join handler that assigns socket.userId and socket.username after
\* its await
UserJoin_AssignsAfterAwait(s) ==
  LET u == clientUser[s]
      t == [NoTask EXCEPT !.kind = "identify", !.pc = "setActive",
                          !.sock = s, !.uid = u]
  IN /\ CanStart(s)
     /\ userId[s] = NoUser
     /\ t \notin dbPending
     /\ dbPending' = dbPending \cup {t}
     /\ emitted' = {}
     /\ last' = NoStep
     /\ UNCHANGED <<now, clientUser, redisClient, node, subscriptions, sockVars, redisVars, redisQ,
                    dbVars, localVars, hist>>

UserJoin(s) ==
  LET u == clientUser[s]
      t == [NoTask EXCEPT !.kind = "identify", !.pc = "setActive",
                          !.sock = s, !.uid = u]
  IN /\ CanStart(s)
     /\ userId[s] = NoUser
     /\ t \notin dbPending
     /\ userId' = [userId EXCEPT ![s] = u]
     /\ username' = [username EXCEPT ![s] = NameOf(u)]
     /\ dbPending' = dbPending \cup {t}
     /\ emitted' = {}
     /\ last' = NoStep
     /\ UNCHANGED <<now, clientUser, redisClient, node, subscriptions, connected, rooms, redisVars, redisQ,
                    dbVars, localVars, hist>>

\* user:join from a connection that already has an identity.  The client of
\* this repository sends the event once per socket; the handler itself has no
\* guard and takes whatever userId and username the event carries.
UserJoinAgain(s, u) ==
  LET t == [NoTask EXCEPT !.kind = "identify", !.pc = "setActive",
                          !.sock = s, !.uid = u]
  IN /\ CanStart(s)
     /\ userId[s] # NoUser
     /\ t \notin dbPending
     /\ userId' = [userId EXCEPT ![s] = u]
     /\ username' = [username EXCEPT ![s] = NameOf(u)]
     /\ dbPending' = dbPending \cup {t}
     /\ emitted' = {}
     /\ last' = Step("identify", "again", s, NoDoc)
     /\ UNCHANGED <<now, clientUser, redisClient, node, subscriptions, connected, rooms, redisVars, redisQ,
                    dbVars, localVars, hist>>

\* the update of users.is_active = true is applied; the handler only logs
UserJoinUpdated(t) ==
  /\ t \in dbPending
  /\ t.kind = "identify"
  /\ dbActive' = [dbActive EXCEPT ![t.uid] = TRUE]
  /\ dbPending' = dbPending \ {t}
  /\ emitted' = {}
  /\ last' = NoStep
  /\ UNCHANGED <<now, clientUser, redisClient, node, subscriptions, sockVars, redisVars, redisQ, dbContent, dbChat,
                 localVars, hist>>


\* ------------------------------------------------------------ socket.io rooms
\* socket.join(room): nothing once the socket is closed
SocketJoin(rs, s, room) ==
  IF connected[s] THEN [rs EXCEPT ![s] = @ \cup {room}] ELSE rs
\* socket.leave(room)
SocketLeave(rs, s, room) == [rs EXCEPT ![s] = @ \ {room}]

UserEvent(to, ev, s) == Event(to, ev, userId[s], username[s], {}, NoCursors, 0, NoRow)
ErrorEvent(to) == Event(to, "error", NoUser, NoName, {}, NoCursors, 0, NoRow)

\* user:joined sent with io.to(roomName): the joining socket gets it too
JoinedRecipients_WholeRoom(s, d) == ToRoom(node[s], DocRoom(d))

\* who gets user:joined: socket.to(roomName)
JoinedRecipients(s, d) == ToRoomExcept(s, DocRoom(d))
\* who gets user:left: socket.to(room)
LeftRecipients(s, d) == ToRoomExcept(s, DocRoom(d))

\* ------------------------------------------------------------ server: document:join
\* the leave sequence of document:join for one old room: socket.leave,
\* removeUserFromDocument, removeUserCursor, emit user:left
LeaveSteps == {"leave", "sRem", "hDel", "user:left"}

\* a document:join without the loop over the old rooms
DocumentJoin_NoLeave(s, d) ==
  LET docRooms == DocRoomsOf(rooms[s])
      t == [NoTask EXCEPT !.kind = "join", !.pc = "sAdd", !.sock = s, !.doc = d,
                          !.uid = userId[s], !.uname = username[s],
                          !.hBefore = SettledIn(d) \ {s},
                          !.hTodo = docRooms \X LeaveSteps]
  IN /\ CanStart(s)
     /\ redisClient
     /\ userId[s] # NoUser /\ username[s] # NoName
     /\ rooms' = SocketJoin(rooms, s, DocRoom(d))
     /\ redisQ' = Append(Unsettle(redisQ, s), t)
     /\ hist' = [hist EXCEPT !.settled[s] = NoDoc]
     /\ emitted' = {}
     /\ last' = NoStep
     /\ UNCHANGED <<now, clientUser, redisClient, node, subscriptions, connected,
                    userId, username, redisVars, dbPending, dbVars, localVars>>

\* a guard that emits the error but does not return: the room is joined
DocumentJoinRejected_NoReturn(s, d) ==
  /\ CanStart(s)
  /\ userId[s] = NoUser \/ username[s] = NoName
  /\ rooms' = SocketJoin(rooms, s, DocRoom(d))
  /\ emitted' = {ErrorEvent(x) : x \in ToSelf(s)}
  /\ last' = Step("join", "rejected", s, d)
  /\ UNCHANGED <<now, clientUser, redisClient, node, subscriptions, connected, userId, username,
                 redisVars, redisQ, dbPending, dbVars, localVars, hist>>

\* if (!socket.userId || !socket.username) { emit error; return }
DocumentJoinRejected(s, d) ==
  /\ CanStart(s)
  /\ userId[s] = NoUser \/ username[s] = NoName
  /\ emitted' = {ErrorEvent(x) : x \in ToSelf(s)}
  /\ last' = Step("join", "rejected", s, d)
  /\ UNCHANGED <<now, clientUser, redisClient, node, subscriptions, sockVars, redisVars, redisQ, dbPending,
                 dbVars, localVars, hist>>

\* the handler up to its first await: either the first old room is left and
\* removeUserFromDocument is awaited, or the new room is joined at once and
\* addUserToDocument is awaited
DocumentJoin(s, d) ==
  LET docRooms == DocRoomsOf(rooms[s])
      base == [NoTask EXCEPT !.kind = "join", !.sock = s, !.doc = d,
                             !.uid = userId[s], !.uname = username[s],
                             !.hBefore = SettledIn(d) \ {s},
                             !.hTodo = docRooms \X LeaveSteps]
  IN /\ CanStart(s)
     /\ redisClient
     /\ userId[s] # NoUser /\ username[s] # NoName
     /\ IF docRooms # {}
        THEN \E r \in docRooms :
               /\ rooms' = SocketLeave(rooms, s, DocRoom(r))
               /\ redisQ' = Append(Unsettle(redisQ, s),
                                   [base EXCEPT !.pc = "sRem", !.old = r,
                                                !.todo = docRooms \ {r},
                                                !.hTodo = @ \ {<<r, "leave">>}])
        ELSE /\ rooms' = SocketJoin(rooms, s, DocRoom(d))
             /\ redisQ' = Append(Unsettle(redisQ, s), [base EXCEPT !.pc = "sAdd"])
     /\ hist' = [hist EXCEPT !.settled[s] = NoDoc]
     /\ emitted' = {}
     /\ last' = NoStep
     /\ UNCHANGED <<now, clientUser, redisClient, node, subscriptions, connected, userId, username,
                    redisVars, dbPending, dbVars, localVars>>

\* ------------------------------------------------------------ redis.js: presence
\* an addUserToDocument(d, u) is in progress
Writing(d, u) ==
  \E i \in DOMAIN redisQ :
    /\ redisQ[i].doc = d /\ redisQ[i].uid = u
    /\ redisQ[i].pc \in {"sAdd", "expirePresence", "hSet", "expireInfo"}

\* the users whose last addUserToDocument(d, u) returned PresenceTTL or more ago
StaleUsers(d) ==
  {u \in Users : /\ hist.written[d][u] # -1
                 /\ now - hist.written[d][u] >= PresenceTTL
                 /\ ~Writing(d, u)}

\* what was left of the PresenceTTL seconds that began when the last
\* addUserToDocument(d, u) returned; 0 when there was none or they are over
TimeLeft(d, u) ==
  IF hist.written[d][u] = -1 \/ now - hist.written[d][u] >= PresenceTTL THEN 0
  ELSE hist.written[d][u] + PresenceTTL - now

\* addUserToDocument(documentId, userId, username) is called: sAdd is sent
CallAddUserToDocument(d, u) ==
  /\ CanRequest
  /\ redisClient
  /\ Issue([NoTask EXCEPT !.kind = "addUser", !.pc = "sAdd", !.doc = d, !.uid = u,
                          !.uname = NameOf(u)])
  /\ emitted' = {}
  /\ last' = NoStep
  /\ UNCHANGED <<now, clientUser, redisClient, node, subscriptions, sockVars, redisVars, dbPending, dbVars,
                 localVars, hist>>

\* removeUserFromDocument(documentId, userId) is called: sRem is sent
CallRemoveUserFromDocument(d, u) ==
  /\ CanRequest
  /\ redisClient
  /\ Issue([NoTask EXCEPT !.kind = "removeUser", !.pc = "sRem", !.old = d, !.uid = u])
  /\ emitted' = {}
  /\ last' = NoStep
  /\ UNCHANGED <<now, clientUser, redisClient, node, subscriptions, sockVars, redisVars, dbPending, dbVars,
                 localVars, hist>>

\* getDocumentActiveUsers(documentId) is called: sMembers is sent
CallGetDocumentActiveUsers(d) ==
  /\ CanRequest
  /\ redisClient
  /\ Issue([NoTask EXCEPT !.kind = "listUsers", !.pc = "sMembers", !.doc = d,
                          !.hStale = StaleUsers(d)])
  /\ emitted' = {}
  /\ last' = NoStep
  /\ UNCHANGED <<now, clientUser, redisClient, node, subscriptions, sockVars, redisVars, dbPending, dbVars,
                 localVars, hist>>

\* getDocumentActiveCount(documentId) is called: sCard is sent
CallGetDocumentActiveCount(d) ==
  /\ CanRequest
  /\ redisClient
  /\ Issue([NoTask EXCEPT !.kind = "count", !.pc = "sCard", !.doc = d])
  /\ emitted' = {}
  /\ last' = NoStep
  /\ UNCHANGED <<now, clientUser, redisClient, node, subscriptions, sockVars, redisVars, dbPending, dbVars,
                 localVars, hist>>

\* removeUserFromDocument(documentId, userId): sRem answered.
\* In document:join the handler goes on to call removeUserCursor.
RemoveUserFromDocument ==
  LET t == Head(redisQ) IN
  /\ AtHead("sRem")
  /\ rPresence' = [rPresence EXCEPT ![t.old] = SRem(@, t.uid)]
  /\ IF t.kind = "join"
     THEN Resume([t EXCEPT !.pc = "hDel", !.uid = userId[t.sock],
                           !.hTodo = @ \ {<<t.old, "sRem">>}])
     ELSE Resume(NoTask)
  /\ hist' = [hist EXCEPT !.written[t.old][t.uid] = -1]
  /\ emitted' = {}
  /\ last' = IF t.kind = "join" THEN NoStep
             ELSE [Step(t.kind, "done", t.sock, t.old) EXCEPT !.users = {t.uid}]
  /\ UNCHANGED <<now, clientUser, redisClient, node, subscriptions, sockVars, rUserInfo, rCursors, rCache,
                 dbPending, dbVars, localVars>>

\* removeUserCursor(documentId, userId): hDel answered.
\* In document:join user:left then goes to the old room, and the next old
\* room is left or the new room is joined and addUserToDocument called.
RemoveUserCursor ==
  LET t == Head(redisQ)
      s == t.sock
      sent == [t EXCEPT !.hTodo = @ \ {<<t.old, "hDel">>, <<t.old, "user:left">>}]
  IN
  /\ AtHead("hDel")
  /\ rCursors' = [rCursors EXCEPT ![t.old] = HDel(@, t.uid)]
  /\ IF t.kind # "join"
     THEN /\ Resume(NoTask)
          /\ emitted' = {}
          /\ last' = [Step(t.kind, "done", s, t.old) EXCEPT !.users = {t.uid}]
          /\ UNCHANGED rooms
     ELSE /\ emitted' = {UserEvent(x, "user:left", s) : x \in LeftRecipients(s, t.old)}
          /\ last' = Step("join", "left", s, t.old)
          /\ IF t.todo # {}
             THEN LET r == CHOOSE x \in t.todo : TRUE IN
                  /\ rooms' = SocketLeave(rooms, s, DocRoom(r))
                  /\ Resume([sent EXCEPT !.pc = "sRem", !.old = r, !.todo = @ \ {r},
                                         !.uid = userId[s],
                                         !.hTodo = @ \ {<<r, "leave">>}])
             ELSE /\ rooms' = SocketJoin(rooms, s, DocRoom(t.doc))
                  /\ Resume([sent EXCEPT !.pc = "sAdd", !.old = NoDoc,
                                         !.uid = userId[s], !.uname = username[s]])
  /\ UNCHANGED <<now, clientUser, redisClient, node, subscriptions, connected, userId, username, rPresence,
                 rUserInfo, rCache, dbPending, dbVars, localVars, hist>>

\* addUserToDocument(documentId, userId, username): sAdd, expire, hSet, expire
AddUserSAdd ==
  LET t == Head(redisQ) IN
  /\ AtHead("sAdd")
  /\ rPresence' = [rPresence EXCEPT ![t.doc] = SAdd(@, t.uid)]
  /\ Resume([t EXCEPT !.pc = "expirePresence"])
  /\ emitted' = {}
  /\ last' = NoStep
  /\ UNCHANGED <<now, clientUser, redisClient, node, subscriptions, sockVars, rUserInfo, rCursors, rCache,
                 dbPending, dbVars, localVars, hist>>

AddUserExpirePresence ==
  LET t == Head(redisQ) IN
  /\ AtHead("expirePresence")
  /\ rPresence' = [rPresence EXCEPT ![t.doc] = ExpireSet(@, PresenceTTL)]
  /\ Resume([t EXCEPT !.pc = "hSet", !.ts = DateNow])
  /\ emitted' = {}
  /\ last' = NoStep
  /\ UNCHANGED <<now, clientUser, redisClient, node, subscriptions, sockVars, rUserInfo, rCursors, rCache,
                 dbPending, dbVars, localVars, hist>>

AddUserHSet ==
  LET t == Head(redisQ) IN
  /\ AtHead("hSet")
  /\ rUserInfo' = [rUserInfo EXCEPT ![t.uid] = HSetInfo(@, t.uid, t.uname, t.ts)]
  /\ Resume([t EXCEPT !.pc = "expireInfo"])
  /\ emitted' = {}
  /\ last' = NoStep
  /\ UNCHANGED <<now, clientUser, redisClient, node, subscriptions, sockVars, rPresence, rCursors, rCache,
                 dbPending, dbVars, localVars, hist>>

\* the second expire answered: addUserToDocument returns true.
\* In document:join getDocumentActiveUsers is called next and sends sMembers.
AddUserExpireInfo ==
  LET t == Head(redisQ) IN
  /\ AtHead("expireInfo")
  /\ rUserInfo' = [rUserInfo EXCEPT ![t.uid] = ExpireInfo(@, PresenceTTL)]
  /\ IF t.kind = "join"
     THEN Resume([t EXCEPT !.pc = "sMembers"])
     ELSE Resume(NoTask)
  /\ hist' = [hist EXCEPT !.written[t.doc][t.uid] = now]
  /\ emitted' = {}
  /\ last' = IF t.kind = "join" THEN NoStep
             ELSE [Step(t.kind, "done", t.sock, t.doc)
                     EXCEPT !.users = {t.uid}, !.n = TimeLeft(t.doc, t.uid)]
  /\ UNCHANGED <<now, clientUser, redisClient, node, subscriptions, sockVars, rPresence, rCursors, rCache,
                 dbPending, dbVars, localVars>>

\* a getDocumentActiveUsers that tests userInfo.userId, a field the hash
\* does not have, and so pushes nobody
PushUser_WrongField(users, info) == users

\* if (userInfo && userInfo.id) users.push({id, username, lastSeen})
PushUser(users, info) ==
  IF info.id # NoUser
  THEN users \cup {[id |-> info.id, username |-> info.username,
                    lastSeen |-> info.lastSeen]}
  ELSE users

\* getDocumentCursors is what document:join calls once it has the users
CallGetDocumentCursors(t, users) ==
  [t EXCEPT !.pc = "hGetAllCursors", !.users = users, !.uids = {}]

\* getDocumentActiveUsers(documentId): sMembers answered; an empty set returns
\* [] at once, otherwise hGetAll is sent for the first userId
GetActiveUsersSMembers ==
  LET t == Head(redisQ)
      userIds == SMembers(rPresence[t.doc])
  IN
  /\ AtHead("sMembers")
  /\ IF userIds # {}
     THEN Resume([t EXCEPT !.pc = "hGetAllUser", !.users = {}, !.uids = userIds,
                           !.uid = CHOOSE u \in userIds : TRUE])
     ELSE IF t.kind = "join" THEN Resume(CallGetDocumentCursors(t, {}))
     ELSE Resume(NoTask)
  /\ emitted' = {}
  /\ last' = IF userIds = {} /\ t.kind # "join"
             THEN [Step(t.kind, "done", t.sock, t.doc) EXCEPT !.pre = t.hStale]
             ELSE NoStep
  /\ UNCHANGED <<now, clientUser, redisClient, node, subscriptions, sockVars, redisVars, dbPending, dbVars,
                 localVars, hist>>

\* hGetAll of one user's info answered; the loop goes on to the next userId or
\* the users are returned
GetActiveUsersHGetAll ==
  LET t == Head(redisQ)
      users == PushUser(t.users, rUserInfo[t.uid])
      rest == t.uids \ {t.uid}
  IN
  /\ AtHead("hGetAllUser")
  /\ IF rest # {}
     THEN Resume([t EXCEPT !.users = users, !.uids = rest,
                           !.uid = CHOOSE u \in rest : TRUE])
     ELSE IF t.kind = "join" THEN Resume(CallGetDocumentCursors(t, users))
     ELSE Resume(NoTask)
  /\ emitted' = {}
  /\ last' = IF rest = {} /\ t.kind # "join"
             THEN [Step(t.kind, "done", t.sock, t.doc) EXCEPT !.users = users,
                                                             !.pre = t.hStale]
             ELSE NoStep
  /\ UNCHANGED <<now, clientUser, redisClient, node, subscriptions, sockVars, redisVars, dbPending, dbVars,
                 localVars, hist>>

\* getDocumentActiveCount(documentId): sCard answered
GetDocumentActiveCount ==
  LET t == Head(redisQ) IN
  /\ AtHead("sCard")
  /\ Resume(NoTask)
  /\ emitted' = {}
  /\ last' = [Step(t.kind, "done", t.sock, t.doc) EXCEPT !.n = SCard(rPresence[t.doc])]
  /\ UNCHANGED <<now, clientUser, redisClient, node, subscriptions, sockVars, redisVars, dbPending, dbVars,
                 localVars, hist>>

\* ------------------------------------------------------------ redis.js: cursors
\* JSON.stringify({...cursorData, timestamp: Date.now()})
CursorJSON(uid, uname, position, ts) ==
  JSONStringify([userId |-> uid, username |-> uname, position |-> position,
                 timestamp |-> ts])

\* a stringify that spreads cursorData last, {timestamp: Date.now(),
\* ...cursorData}, so that a timestamp in cursorData wins
StampCursor_KeepsSupplied(supplied, ts) == IF supplied # 0 THEN supplied ELSE ts
\* {...cursorData, timestamp: Date.now()}: the later key wins
StampCursor(supplied, ts) == ts
\* the timestamps a caller's cursorData may carry
SuppliedStamps == {5}

\* a getDocumentCursors that returns every field it can parse
FreshCursors_NoAgeCheck(k) ==
  [u \in Users |->
     IF k.fields[u] # NoField /\ JSONValid(k.fields[u])
     THEN JSONParse(k.fields[u])
     ELSE NoCursor]

\* getDocumentCursors: parse every field, keep the cursors younger than maxAge
FreshCursors(k) ==
  [u \in Users |->
     IF /\ k.fields[u] # NoField
        /\ JSONValid(k.fields[u])
        /\ DateNow - JSONParse(k.fields[u]).timestamp < CursorMaxAgeMs
     THEN JSONParse(k.fields[u])
     ELSE NoCursor]

\* getDocumentCursors(documentId): hGetAll answered.
\* In document:join this is the last await: user:joined goes to the others in
\* the room and presence:update to the joining socket.
GetDocumentCursors ==
  LET t == Head(redisQ)
      s == t.sock
      cursors == FreshCursors(rCursors[t.doc])
      others == {i \in 2..Len(redisQ) : redisQ[i].sock = s /\ redisQ[i].kind = "join"}
      settles == connected[s] /\ others = {} /\ DocRoom(t.doc) \in rooms[s]
  IN
  /\ AtHead("hGetAllCursors")
  /\ Resume(NoTask)
  /\ IF t.kind = "join"
     THEN /\ emitted' =
               {UserEvent(x, "user:joined", s) : x \in JoinedRecipients(s, t.doc)}
               \cup {Event(x, "presence:update", NoUser, NoName, t.users, cursors, 0, NoRow) :
                       x \in ToSelf(s)}
          /\ hist' = IF settles THEN [hist EXCEPT !.settled[s] = t.doc] ELSE hist
          /\ last' = [Step("join", "done", s, t.doc) EXCEPT !.pre = t.hBefore]
     ELSE /\ emitted' = {}
          /\ hist' = hist
          /\ last' = [Step(t.kind, "done", s, t.doc) EXCEPT !.cursors = cursors]
  /\ UNCHANGED <<now, clientUser, redisClient, node, subscriptions, sockVars, redisVars, dbPending, dbVars,
                 localVars>>

\* updateUserCursor(documentId, userId, cursorData): hSet, expire
UpdateCursorHSet ==
  LET t == Head(redisQ) IN
  /\ AtHead("hSetCursor")
  /\ rCursors' = [rCursors EXCEPT ![t.doc] =
                    HSet(@, t.uid, CursorJSON(t.uid, t.uname, t.data,
                                              StampCursor(t.res, t.ts)))]
  /\ Resume([t EXCEPT !.pc = "expireCursors"])
  /\ emitted' = {}
  /\ last' = NoStep
  /\ UNCHANGED <<now, clientUser, redisClient, node, subscriptions, sockVars, rPresence, rUserInfo, rCache,
                 dbPending, dbVars, localVars, hist>>

CursorEvent(to, t) ==
  Event(to, "cursor:updated", t.uid, t.uname, {},
        [NoCursors EXCEPT ![t.uid] =
           [userId |-> t.uid, username |-> t.uname, position |-> t.data,
            timestamp |-> t.res]],
        0, NoRow)

\* the expire answered: updateUserCursor returns true.
\* In cursor:update the handler then broadcasts cursor:updated to the others
\* in the room and calls publishCursorUpdate.
UpdateCursorExpire ==
  LET t == Head(redisQ) IN
  /\ AtHead("expireCursors")
  /\ rCursors' = [rCursors EXCEPT ![t.doc] = ExpireHash(@, CursorTTL)]
  /\ IF t.kind = "cursor"
     THEN /\ Resume([t EXCEPT !.pc = "publishCursor"])
          /\ emitted' = {CursorEvent(x, t) : x \in ToRoomExcept(t.sock, DocRoom(t.doc))}
          /\ last' = [Step("cursor", "broadcast", t.sock, t.doc) EXCEPT !.ack = t.hSeq]
     ELSE /\ Resume(NoTask)
          /\ emitted' = {}
          /\ last' = [Step(t.kind, "done", t.sock, t.doc) EXCEPT !.users = {t.uid}]
  /\ UNCHANGED <<now, clientUser, redisClient, node, subscriptions, sockVars, rPresence, rUserInfo, rCache,
                 dbPending, dbVars, localVars, hist>>

\* updateUserCursor(documentId, userId, cursorData) is called: the value is
\* stringified with timestamp Date.now() and hSet is sent
CallUpdateUserCursor(d, u, p) ==
  /\ CanRequest
  /\ redisClient
  /\ Issue([NoTask EXCEPT !.kind = "setCursor", !.pc = "hSetCursor", !.doc = d,
                          !.uid = u, !.uname = NameOf(u), !.data = p,
                          !.ts = DateNow])
  /\ emitted' = {}
  /\ last' = NoStep
  /\ UNCHANGED <<now, clientUser, redisClient, node, subscriptions, sockVars, redisVars, dbPending, dbVars,
                 localVars, hist>>

\* updateUserCursor is called with a cursorData that carries a timestamp
CallUpdateStampedCursor(d, u, p, supplied) ==
  /\ CanRequest
  /\ redisClient
  /\ Issue([NoTask EXCEPT !.kind = "setCursor", !.pc = "hSetCursor", !.doc = d,
                          !.uid = u, !.uname = NameOf(u), !.data = p,
                          !.res = supplied, !.ts = DateNow])
  /\ emitted' = {}
  /\ last' = NoStep
  /\ UNCHANGED <<now, clientUser, redisClient, node, subscriptions, sockVars, redisVars, dbPending, dbVars,
                 localVars, hist>>

\* removeUserCursor(documentId, userId) is called: hDel is sent
CallRemoveUserCursor(d, u) ==
  /\ CanRequest
  /\ redisClient
  /\ Issue([NoTask EXCEPT !.kind = "removeCursor", !.pc = "hDel", !.old = d,
                          !.uid = u])
  /\ emitted' = {}
  /\ last' = NoStep
  /\ UNCHANGED <<now, clientUser, redisClient, node, subscriptions, sockVars, redisVars, dbPending, dbVars,
                 localVars, hist>>

\* getDocumentCursors(documentId) is called: hGetAll is sent
CallListCursors(d) ==
  /\ CanRequest
  /\ redisClient
  /\ Issue([NoTask EXCEPT !.kind = "listCursors", !.pc = "hGetAllCursors",
                          !.doc = d])
  /\ emitted' = {}
  /\ last' = NoStep
  /\ UNCHANGED <<now, clientUser, redisClient, node, subscriptions, sockVars, redisVars, dbPending, dbVars,
                 localVars, hist>>

\* ------------------------------------------------------------ redis.js: cache, pub/sub
\* JSON.stringify({...documentData, cachedAt: Date.now()})
CacheJSON(content, ts) == JSONStringify([content |-> content, cachedAt |-> ts])

\* getCachedDocument: cached ? JSON.parse(cached) : null (null also when the
\* parse throws); NoDocument stands for null
NoDocument == [content |-> -1, cachedAt |-> -1]
ParseCached(k) ==
  IF k.val # NoField /\ JSONValid(k.val) THEN JSONParse(k.val) ELSE NoDocument

\* a GET that serves whatever getCachedDocument returned
CacheFresh_NoAgeCheck(doc) == doc # NoDocument

\* a cachedAt that is missing or no number: Date.now() - cachedAt is NaN
Undefined == -2

\* a freshness test written !(Date.now() - cachedAt >= 300000), which NaN passes
CacheFresh_NotStale(doc) ==
  /\ doc # NoDocument
  /\ ~(doc.cachedAt # Undefined /\ DateNow - doc.cachedAt >= CacheMaxAgeMs)

\* server GET: cachedDoc && (Date.now() - cachedDoc.cachedAt < 300000); every
\* comparison with NaN is false
CacheFresh(doc) ==
  /\ doc # NoDocument
  /\ doc.cachedAt # Undefined
  /\ DateNow - doc.cachedAt < CacheMaxAgeMs

\* values of the cache key that cacheDocument does not write: a string that
\* is no JSON, and a document without cachedAt
ForeignContent == 9
MalformedValues ==
  {<<"text", ForeignContent>>,
   JSONStringify([content |-> ForeignContent, cachedAt |-> Undefined])}
Malformed(k) == k.val \in MalformedValues

\* another writer of the Redis instance leaves such a value in the key
ForeignCacheWrite(d, v) ==
  /\ InFlight = 0
  /\ redisClient
  /\ ~Malformed(rCache[d])
  /\ rCache' = [rCache EXCEPT ![d] = SetEx(CacheTTL, v)]
  /\ emitted' = {}
  /\ last' = NoStep
  /\ UNCHANGED <<now, clientUser, redisClient, node, subscriptions, sockVars, rPresence, rUserInfo, rCursors,
                 redisQ, dbPending, dbVars, localVars, hist>>

\* an invalidateDocumentCache that deletes another key
DelCache_WrongKey(k) == k

\* invalidateDocumentCache(documentId): del
DelCache(k) == NoStrKey

\* subscribeToDocument(documentId, callback): a duplicate client of node n
\* subscribes to doc:{id}:changes and doc:{id}:cursors.  The function is
\* exported by redis.js; the server does not import it and nothing calls it.
SubscribeToDocument(n, d) ==
  /\ redisClient
  /\ subscriptions' = [subscriptions EXCEPT ![n] = @ \cup {d}]
  /\ emitted' = {}
  /\ last' = NoStep
  /\ UNCHANGED <<now, clientUser, redisClient, node, sockVars, redisVars, redisQ,
                 dbPending, dbVars, localVars, hist>>

\* the nodes Redis hands a message published for document d to
Subscribers(d) == {n \in Nodes : d \in subscriptions[n]}

\* publishDocumentChange / publishCursorUpdate: publish answered.  Nothing in
\* the server subscribes to the channels, so the message reaches no one.
\* In document:change invalidateDocumentCache is called next.
PublishDocumentChange ==
  LET t == Head(redisQ) IN
  /\ AtHead("publishChange")
  /\ IF t.kind = "change" THEN Resume([t EXCEPT !.pc = "del"]) ELSE Resume(NoTask)
  /\ emitted' = {}
  /\ last' = NoStep
  /\ UNCHANGED <<now, clientUser, redisClient, node, subscriptions, sockVars, redisVars, dbPending, dbVars,
                 localVars, hist>>

PublishCursorUpdate ==
  LET t == Head(redisQ) IN
  /\ AtHead("publishCursor")
  /\ Resume(NoTask)
  /\ emitted' = {}
  /\ last' = [Step(t.kind, "done", t.sock, t.doc) EXCEPT !.ack = t.hSeq]
  /\ UNCHANGED <<now, clientUser, redisClient, node, subscriptions, sockVars, redisVars, dbPending, dbVars,
                 localVars, hist>>

\* invalidateDocumentCache: del answered.  It is the last await of
\* document:change; in PUT /api/documents/:id the response follows.
InvalidateDocumentCache ==
  LET t == Head(redisQ) IN
  /\ AtHead("del")
  /\ rCache' = [rCache EXCEPT ![t.doc] = DelCache(@)]
  /\ Resume(NoTask)
  /\ hist' = [hist EXCEPT
                !.lastPut[t.doc] = NoDocument,
                !.changed[t.doc] = IF t.kind = "change" THEN TRUE ELSE @,
                !.acked[t.doc] = IF t.kind = "put" /\ t.res > @ THEN t.res ELSE @]
  /\ emitted' = {}
  /\ last' = [Step(t.kind, "done", t.sock, t.doc) EXCEPT
                !.pre = IF rCache[t.doc] # NoStrKey THEN {t.doc} ELSE {},
                !.ack = t.hSeq]
  /\ UNCHANGED <<now, clientUser, redisClient, node, subscriptions, sockVars, rPresence, rUserInfo, rCursors,
                 dbPending, dbVars, localVars>>

\* ------------------------------------------------------------ server: document:change
Contents == {1, 2}

ChangedEvent(to, s, c) == Event(to, "document:changed", userId[s], username[s], {}, NoCursors, c, NoRow)

\* if (!socket.userId) return
DocumentChangeIgnored(s, d, c) ==
  /\ CanStart(s)
  /\ userId[s] = NoUser
  /\ emitted' = {}
  /\ last' = Step("change", "ignored", s, d)
  /\ UNCHANGED <<now, clientUser, redisClient, node, subscriptions, sockVars, redisVars, redisQ, dbPending,
                 dbVars, localVars, hist>>

\* document:changed goes to the others in doc:{data.documentId}; then
\* publishDocumentChange is awaited
DocumentChange(s, d, c) ==
  /\ CanStart(s)
  /\ redisClient
  /\ userId[s] # NoUser
  /\ emitted' = {ChangedEvent(x, s, c) : x \in ToRoomExcept(s, DocRoom(d))}
  /\ redisQ' = Append(RenumberedQ(s),
                       [NoTask EXCEPT !.kind = "change", !.pc = "publishChange",
                                      !.sock = s, !.doc = d, !.data = c,
                                      !.hSeq = NextSeq(s)])
  /\ dbPending' = RenumberedDb(s)
  /\ last' = [Step("change", "broadcast", s, d) EXCEPT !.n = c, !.ack = NextSeq(s)]
  /\ UNCHANGED <<now, clientUser, redisClient, node, subscriptions, sockVars, redisVars, dbVars,
                 localVars, hist>>

\* ------------------------------------------------------------ server: cursor:update
\* if (!socket.userId || !socket.username) return
CursorUpdateIgnored(s, d, p) ==
  /\ CanStart(s)
  /\ userId[s] = NoUser \/ username[s] = NoName
  /\ emitted' = {}
  /\ last' = Step("cursor", "ignored", s, d)
  /\ UNCHANGED <<now, clientUser, redisClient, node, subscriptions, sockVars, redisVars, redisQ, dbPending,
                 dbVars, localVars, hist>>

\* cursorData is built and updateUserCursor awaited
CursorUpdate(s, d, p) ==
  /\ CanStart(s)
  /\ redisClient
  /\ userId[s] # NoUser /\ username[s] # NoName
  /\ redisQ' = Append(RenumberedQ(s),
                       [NoTask EXCEPT !.kind = "cursor", !.pc = "hSetCursor",
                                      !.sock = s, !.doc = d, !.uid = userId[s],
                                      !.uname = username[s], !.data = p,
                                      !.res = DateNow, !.ts = DateNow,
                                      !.hSeq = NextSeq(s)])
  /\ dbPending' = RenumberedDb(s)
  /\ emitted' = {}
  /\ last' = NoStep
  /\ UNCHANGED <<now, clientUser, redisClient, node, subscriptions, sockVars, redisVars, dbVars,
                 localVars, hist>>

\* ------------------------------------------------------------ without Redis
\* Every helper of redis.js begins with `if (!redisClient) return <value>`.
\* It then returns without any I/O, so a handler that awaits only such
\* helpers runs to its end before the next socket event is handled.
Helpers ==
  {"addUserToDocument", "removeUserFromDocument", "getDocumentActiveUsers",
   "getDocumentActiveCount", "updateUserCursor", "removeUserCursor",
   "getDocumentCursors", "cacheDocument", "getCachedDocument",
   "invalidateDocumentCache", "publishDocumentChange", "publishCursorUpdate"}

\* helpers that call a method of the null client outside any guard or try
WithoutClient_Unguarded(op) == "throws"

\* the value behind `if (!redisClient) return`
WithoutClient(op) ==
  CASE op = "getDocumentActiveUsers" -> "[]"
    [] op = "getDocumentActiveCount" -> "0"
    [] op = "getDocumentCursors" -> "{}"
    [] op = "getCachedDocument" -> "null"
    [] OTHER -> "false"

\* an await of one of the helpers ops throws and ends the handler
Throws(ops) == \E op \in ops : WithoutClient(op) = "throws"

\* a helper is called while redisClient is null
CallWithoutClient(op, d) ==
  /\ ~redisClient
  /\ emitted' = {}
  /\ last' = [Step(op, "done", "none", d) EXCEPT !.ret = WithoutClient(op)]
  /\ UNCHANGED <<now, clientUser, redisClient, node, subscriptions, sockVars, redisVars, redisQ, dbPending,
                 dbVars, localVars, hist>>

\* socket.on('document:join') while redisClient is null: the old rooms are
\* left and user:left sent to each, the new room is joined, user:joined goes
\* to the others in it and presence:update, with no users and no cursors, to
\* the joining socket
DocumentJoinNoRedis(s, d) ==
  LET olds == DocRoomsOf(rooms[s])
      left == [rooms EXCEPT ![s] = @ \ {DocRoom(r) : r \in olds}]
      leaveThrows == olds # {} /\ Throws({"removeUserFromDocument", "removeUserCursor"})
      joinThrows == Throws({"addUserToDocument", "getDocumentActiveUsers",
                            "getDocumentCursors"})
  IN /\ CanStart(s)
     /\ ~redisClient
     /\ userId[s] # NoUser /\ username[s] # NoName
     /\ IF leaveThrows
        THEN /\ \E r \in olds : rooms' = SocketLeave(rooms, s, DocRoom(r))
             /\ emitted' = {}
             /\ hist' = [hist EXCEPT !.settled[s] = NoDoc]
        ELSE /\ rooms' = SocketJoin(left, s, DocRoom(d))
             /\ emitted' =
                  {UserEvent(x, "user:left", s) :
                     x \in UNION {LeftRecipients(s, r) : r \in olds}}
                  \cup (IF joinThrows THEN {}
                        ELSE {UserEvent(x, "user:joined", s) : x \in JoinedRecipients(s, d)}
                             \cup {Event(x, "presence:update", NoUser, NoName, {},
                                         NoCursors, 0, NoRow) : x \in ToSelf(s)})
             /\ hist' = [hist EXCEPT !.settled[s] = IF joinThrows THEN NoDoc ELSE d]
     /\ last' = [Step("join", "done", s, d) EXCEPT !.pre = olds]
     /\ UNCHANGED <<now, clientUser, redisClient, node, subscriptions, connected, userId, username,
                    redisVars, redisQ, dbPending, dbVars, localVars>>

\* socket.on('document:change') while redisClient is null: the broadcast,
\* then publishDocumentChange and invalidateDocumentCache return false
DocumentChangeNoRedis(s, d, c) ==
  /\ CanStart(s)
  /\ ~redisClient
  /\ userId[s] # NoUser
  /\ emitted' = {ChangedEvent(x, s, c) : x \in ToRoomExcept(s, DocRoom(d))}
  /\ last' = [Step("change", "done", s, d) EXCEPT !.n = c]
  /\ UNCHANGED <<now, clientUser, redisClient, node, subscriptions, sockVars, redisVars, redisQ, dbPending,
                 dbVars, localVars, hist>>

\* socket.on('cursor:update') while redisClient is null: updateUserCursor
\* returns false, the broadcast follows, publishCursorUpdate returns false
CursorUpdateNoRedis(s, d, p) ==
  LET t == [NoTask EXCEPT !.kind = "cursor", !.sock = s, !.doc = d,
                          !.uid = userId[s], !.uname = username[s],
                          !.data = p, !.res = DateNow]
  IN /\ CanStart(s)
     /\ ~redisClient
     /\ userId[s] # NoUser /\ username[s] # NoName
     /\ emitted' = IF Throws({"updateUserCursor"}) THEN {}
                   ELSE {CursorEvent(x, t) : x \in ToRoomExcept(s, DocRoom(d))}
     /\ last' = [Step("cursor", "done", s, d) EXCEPT !.n = p]
     /\ UNCHANGED <<now, clientUser, redisClient, node, subscriptions, sockVars, redisVars, redisQ,
                    dbPending, dbVars, localVars, hist>>

\* ------------------------------------------------------------ server: chat:message
Messages == {1}
DbError == -1

\* if (!socket.userId || !socket.username) return
ChatMessageIgnored(s, d, m) ==
  /\ CanStart(s)
  /\ userId[s] = NoUser \/ username[s] = NoName
  /\ emitted' = {}
  /\ last' = Step("chat", "ignored", s, d)
  /\ UNCHANGED <<now, clientUser, redisClient, node, subscriptions, sockVars, redisVars, redisQ, dbPending,
                 dbVars, localVars, hist>>

\* the insert into chat_messages is awaited
ChatMessage(s, d, m) ==
  LET t == [NoTask EXCEPT !.kind = "chat", !.pc = "insert", !.sock = s, !.doc = d,
                          !.uid = userId[s], !.data = m, !.ts = DateNow,
                          !.hSeq = NextSeq(s)]
  IN /\ CanStart(s)
     /\ userId[s] # NoUser /\ username[s] # NoName
     /\ t \notin RenumberedDb(s)
     /\ dbPending' = RenumberedDb(s) \cup {t}
     /\ redisQ' = RenumberedQ(s)
     /\ emitted' = {}
     /\ last' = NoStep
     /\ UNCHANGED <<now, clientUser, redisClient, node, subscriptions, sockVars, redisVars, dbVars,
                    localVars, hist>>

\* the database runs the insert: a row with a generated id, or an error
ChatRow(id, t) ==
  [id |-> id, document_id |-> t.doc, user_id |-> t.uid, message |-> t.data,
   created_at |-> t.ts]

ChatInsert(t) ==
  /\ t \in dbPending
  /\ t.kind = "chat" /\ t.pc = "insert"
  /\ \/ /\ Len(dbChat) < MaxChat
        /\ dbChat' = Append(dbChat, ChatRow(Len(dbChat) + 1, t))
        /\ dbPending' = (dbPending \ {t}) \cup {[t EXCEPT !.pc = "reply", !.res = Len(dbChat) + 1]}
     \/ /\ dbChat' = dbChat
        /\ dbPending' = (dbPending \ {t}) \cup {[t EXCEPT !.pc = "reply", !.res = DbError]}
  /\ emitted' = {}
  /\ last' = NoStep
  /\ UNCHANGED <<now, clientUser, redisClient, node, subscriptions, sockVars, redisVars, redisQ, dbActive,
                 dbContent, localVars, hist>>

\* who gets chat:new_message: io.to(roomName)
ChatRecipients(s, d) == ToRoom(node[s], DocRoom(d))
ChatEvent(to, row) ==
  Event(to, "chat:new_message", NoUser, NoName, {}, NoCursors, 0, row)

\* a handler without "if (error) throw error": it broadcasts whatever came back
ChatReply_NoErrorCheck(t) ==
  /\ t \in dbPending
  /\ t.kind = "chat" /\ t.pc = "reply"
  /\ dbPending' = dbPending \ {t}
  /\ emitted' = {ChatEvent(x, ChatRow(t.res, t)) : x \in ChatRecipients(t.sock, t.doc)}
  /\ last' = [Step("chat", "done", t.sock, t.doc) EXCEPT !.n = t.res]
  /\ UNCHANGED <<now, clientUser, redisClient, node, subscriptions, sockVars, redisVars, redisQ, dbVars,
                 localVars, hist>>

\* a handler whose catch only logs
ChatReply_OnlyLogs(t) ==
  /\ t \in dbPending
  /\ t.kind = "chat" /\ t.pc = "reply"
  /\ dbPending' = dbPending \ {t}
  /\ IF t.res = DbError
     THEN /\ emitted' = {}
          /\ last' = Step("chat", "failed", t.sock, t.doc)
     ELSE /\ emitted' = {ChatEvent(x, ChatRow(t.res, t)) : x \in ChatRecipients(t.sock, t.doc)}
          /\ last' = [Step("chat", "done", t.sock, t.doc) EXCEPT !.n = t.res]
  /\ UNCHANGED <<now, clientUser, redisClient, node, subscriptions, sockVars, redisVars, redisQ, dbVars,
                 localVars, hist>>

\* a handler that stores the message and leaves the broadcast to a later round
ChatReply_Deferred(t) ==
  /\ t \in dbPending
  /\ t.kind = "chat" /\ t.pc = "reply"
  /\ dbPending' = dbPending \ {t}
  /\ IF t.res = DbError
     THEN /\ emitted' = {ErrorEvent(x) : x \in ToSelf(t.sock)}
          /\ last' = Step("chat", "failed", t.sock, t.doc)
     ELSE /\ emitted' = {}
          /\ last' = [Step("chat", "done", t.sock, t.doc) EXCEPT !.n = t.res,
                                                                 !.ack = t.hSeq]
  /\ UNCHANGED <<now, clientUser, redisClient, node, subscriptions, sockVars, redisVars, redisQ, dbVars,
                 localVars, hist>>

\* the reply: if (error) throw error -> catch: error to the sender;
\* otherwise chat:new_message with the returned row to the whole room
ChatReply(t) ==
  /\ t \in dbPending
  /\ t.kind = "chat" /\ t.pc = "reply"
  /\ dbPending' = dbPending \ {t}
  /\ IF t.res = DbError
     THEN /\ emitted' = {ErrorEvent(x) : x \in ToSelf(t.sock)}
          /\ last' = [Step("chat", "failed", t.sock, t.doc) EXCEPT !.ack = t.hSeq]
     ELSE /\ emitted' = {ChatEvent(x, ChatRow(t.res, t)) : x \in ChatRecipients(t.sock, t.doc)}
          /\ last' = [Step("chat", "done", t.sock, t.doc) EXCEPT !.n = t.res,
                                                                 !.ack = t.hSeq]
  /\ UNCHANGED <<now, clientUser, redisClient, node, subscriptions, sockVars, redisVars, redisQ, dbVars,
                 localVars, hist>>

\* ------------------------------------------------------------ server: disconnect
\* Socket.IO closes the socket (leaveAll, connected = false) and then runs
\* socket.on('disconnect').  The handler's loop runs over
\* Array.from(socket.rooms).filter(doc:), which is empty by then, so no
\* presence or cursor is removed and no user:left is sent; the handler goes
\* straight to the update of users.is_active.
Disconnect_NoGuard(s) ==
  LET t == [NoTask EXCEPT !.kind = "disconnect", !.pc = "setInactive",
                          !.sock = s, !.uid = userId[s],
                          !.hRooms = SettledRooms(s)]
  IN /\ connected[s]
     /\ connected' = [connected EXCEPT ![s] = FALSE]
     /\ rooms' = [rooms EXCEPT ![s] = {}]
     /\ dbPending' = dbPending \cup {t}
     /\ redisQ' = Unsettle(redisQ, s)
     /\ hist' = [hist EXCEPT !.settled[s] = NoDoc]
     /\ emitted' = {}
     /\ last' = [Step("disconnect", "closed", s, NoDoc) EXCEPT
                   !.pre = SettledRooms(s)]
     /\ UNCHANGED <<now, clientUser, redisClient, node, subscriptions, userId,
                    username, redisVars, dbVars, localVars>>

Disconnect(s) ==
  LET closed == [rooms EXCEPT ![s] = {}]
      docRooms == DocRoomsOf(closed[s])
      t == [NoTask EXCEPT !.kind = "disconnect", !.pc = "setInactive",
                          !.sock = s, !.uid = userId[s],
                          !.hRooms = SettledRooms(s)]
  IN /\ connected[s]
     /\ connected' = [connected EXCEPT ![s] = FALSE]
     /\ rooms' = closed
     /\ docRooms = {}
     /\ dbPending' = IF userId[s] # NoUser THEN dbPending \cup {t} ELSE dbPending
     /\ redisQ' = Unsettle(redisQ, s)
     /\ hist' = [hist EXCEPT !.settled[s] = NoDoc]
     /\ emitted' = {}
     /\ last' = [Step("disconnect", "closed", s, NoDoc) EXCEPT
                   !.pre = SettledRooms(s)]
     /\ UNCHANGED <<now, clientUser, redisClient, node, subscriptions, userId, username, redisVars, dbVars,
                    localVars>>

\* a closed socket is closed again (the transport reports the close once more,
\* or the client's disconnect packet arrives late): Socket.IO returns at once
\* for a socket that is not connected, and the listener does not run again
DisconnectAgain(s) ==
  /\ ~connected[s]
  /\ emitted' = {}
  /\ last' = Step("disconnect", "again", s, NoDoc)
  /\ UNCHANGED <<now, clientUser, redisClient, node, subscriptions, sockVars,
                 redisVars, redisQ, dbPending, dbVars, localVars, hist>>

\* the update of users.is_active = false is applied; the handler ends
DisconnectUpdated(t) ==
  /\ t \in dbPending
  /\ t.kind = "disconnect"
  /\ dbActive' = [dbActive EXCEPT ![t.uid] = FALSE]
  /\ dbPending' = dbPending \ {t}
  /\ emitted' = {}
  /\ last' = [Step("disconnect", "done", t.sock, NoDoc) EXCEPT !.pre = t.hRooms]
  /\ UNCHANGED <<now, clientUser, redisClient, node, subscriptions, sockVars, redisVars, redisQ, dbContent,
                 dbChat, localVars, hist>>

\* the update of users.is_active = false fails: supabase resolves with an
\* error the handler does not look at; the handler ends
DisconnectUpdateFailed(t) ==
  /\ t \in dbPending
  /\ t.kind = "disconnect"
  /\ dbPending' = dbPending \ {t}
  /\ emitted' = {}
  /\ last' = [Step("disconnect", "failed", t.sock, NoDoc) EXCEPT !.pre = t.hRooms]
  /\ UNCHANGED <<now, clientUser, redisClient, node, subscriptions, sockVars, redisVars, redisQ, dbVars,
                 localVars, hist>>

\* ------------------------------------------------------------ socketHandlers.ts
\* documentRooms: Map<documentId, Set<userId>>; userCursors: Map<documentId,
\* Map<userId, cursor>>.  has is Map.has(documentId).
NoRoom == [has |-> FALSE, users |-> {}]
NoCursorMap == [has |-> FALSE, cursors |-> NoCursors]

\* documentRooms.get(documentId) || []
TrackedUsers(d) == IF documentRooms[d].has THEN documentRooms[d].users ELSE {}

\* a forEach that deletes the userId but never the room
UntrackUser_KeepEmpty(olds, u) ==
  [d \in Docs |->
     IF d \in olds /\ documentRooms[d].has
     THEN [documentRooms[d] EXCEPT !.users = @ \ {u}]
     ELSE documentRooms[d]]

\* docRooms.forEach: documentRooms.get(oldDocId)?.delete(socket.userId), and
\* both maps drop the document when its set becomes empty
UntrackUser(olds, u) ==
  [d \in Docs |->
     IF d \in olds /\ documentRooms[d].has /\ documentRooms[d].users \ {u} # {}
     THEN [documentRooms[d] EXCEPT !.users = @ \ {u}]
     ELSE IF d \in olds THEN NoRoom
     ELSE documentRooms[d]]
UntrackCursors(olds, u) ==
  [d \in Docs |->
     IF d \in olds /\ documentRooms[d].has /\ documentRooms[d].users \ {u} = {}
     THEN NoCursorMap
     ELSE userCursors[d]]

\* if (!documentRooms.has(documentId)) set both maps; then add socket.userId
TrackUser(dr, d, u) ==
  [dr EXCEPT ![d] = [has |-> TRUE, users |-> (IF @.has THEN @.users ELSE {}) \cup {u}]]
TrackCursors(uc, dr, d) ==
  IF dr[d].has THEN uc ELSE [uc EXCEPT ![d] = [has |-> TRUE, cursors |-> NoCursors]]

\* socket.on('document:join') up to its only await: the old rooms are left and
\* untracked, the new room is joined and tracked, and the users of the
\* document are selected from the database
LocalDocumentJoin(s, d) ==
  LET olds == DocRoomsOf(rooms[s])
      left == [rooms EXCEPT ![s] = @ \ {DocRoom(r) : r \in olds}]
      dr == UntrackUser(olds, userId[s])
      uc == UntrackCursors(olds, userId[s])
      tracked == TrackUser(dr, d, userId[s])
      t == [NoTask EXCEPT !.kind = "localJoin", !.pc = "selectUsers", !.sock = s,
                          !.doc = d, !.uids = tracked[d].users]
  IN /\ CanStart(s)
     /\ userId[s] # NoUser /\ username[s] # NoName
     /\ t \notin dbPending
     /\ rooms' = SocketJoin(left, s, DocRoom(d))
     /\ documentRooms' = tracked
     /\ userCursors' = TrackCursors(uc, dr, d)
     /\ dbPending' = dbPending \cup {t}
     /\ emitted' = {}
     /\ last' = [Step("localJoin", "tracked", s, d) EXCEPT !.pre = olds]
     /\ UNCHANGED <<now, clientUser, redisClient, node, subscriptions, connected, userId, username,
                    redisVars, redisQ, dbVars, hist>>

\* select id, username from users where id in usersInDoc
SelectUsers(uids) == {[id |-> u, username |-> NameOf(u), lastSeen |-> 0] : u \in uids}

\* Object.fromEntries(userCursors.get(documentId) || [])
LocalCursors(d) == IF userCursors[d].has THEN userCursors[d].cursors ELSE NoCursors

\* the select answered: user:joined to the others in the room, presence:update
\* to the joining socket
LocalJoinSelected(t) ==
  LET s == t.sock IN
  /\ t \in dbPending
  /\ t.kind = "localJoin"
  /\ dbPending' = dbPending \ {t}
  /\ emitted' = {UserEvent(x, "user:joined", s) : x \in JoinedRecipients(s, t.doc)}
                 \cup {Event(x, "presence:update", NoUser, NoName, SelectUsers(t.uids),
                              LocalCursors(t.doc), 0, NoRow) : x \in ToSelf(s)}
  /\ last' = Step("localJoin", "done", s, t.doc)
  /\ UNCHANGED <<now, clientUser, redisClient, node, subscriptions, sockVars, redisVars, redisQ, dbVars,
                 localVars, hist>>

\* socket.on('cursor:update') of socketHandlers.ts: a synchronous handler.
\* if (!socket.userId || !socket.username) return; nothing happens either
\* when userCursors has no map for the document
LocalCursorUpdateIgnored(s, d, p) ==
  /\ connected[s]
  /\ userId[s] = NoUser \/ username[s] = NoName \/ ~userCursors[d].has
  /\ emitted' = {}
  /\ last' = Step("localCursor", "ignored", s, d)
  /\ UNCHANGED <<now, clientUser, redisClient, node, subscriptions, sockVars,
                 redisVars, redisQ, dbPending, dbVars, localVars, hist>>

\* docCursors.set(socket.userId, {..., timestamp: Date.now()}) and the
\* broadcast of cursor:updated, which carries no timestamp
LocalCursorUpdate(s, d, p) ==
  LET cur == [userId |-> userId[s], username |-> username[s], position |-> p,
              timestamp |-> DateNow]
      t == [NoTask EXCEPT !.kind = "localCursor", !.sock = s, !.doc = d,
                          !.uid = userId[s], !.uname = username[s], !.data = p]
  IN /\ connected[s]
     /\ userId[s] # NoUser /\ username[s] # NoName
     /\ userCursors[d].has
     /\ userCursors' = [userCursors EXCEPT ![d].cursors[userId[s]] = cur]
     /\ emitted' = {CursorEvent(x, t) : x \in ToRoomExcept(s, DocRoom(d))}
     /\ last' = [Step("localCursor", "done", s, d) EXCEPT !.n = p]
     /\ UNCHANGED <<now, clientUser, redisClient, node, subscriptions, sockVars,
                    redisVars, redisQ, dbPending, dbVars, documentRooms, hist>>

\* socket.on('document:change') of socketHandlers.ts: if (!socket.userId) return
LocalDocumentChangeIgnored(s, d, c) ==
  /\ connected[s]
  /\ userId[s] = NoUser
  /\ emitted' = {}
  /\ last' = Step("localChange", "ignored", s, d)
  /\ UNCHANGED <<now, clientUser, redisClient, node, subscriptions, sockVars,
                 redisVars, redisQ, dbPending, dbVars, localVars, hist>>

\* document:changed goes to the others in doc:{data.documentId} and
\* setTimeout(..., 1000) arms the save; the armed timer waits among the
\* pending calls with pc "timer"
LocalDocumentChange(s, d, c) ==
  LET t == [NoTask EXCEPT !.kind = "localChange", !.pc = "timer", !.sock = s,
                          !.doc = d, !.data = c]
  IN /\ CanStart(s)
     /\ userId[s] # NoUser
     /\ t \notin dbPending
     /\ emitted' = {ChangedEvent(x, s, c) : x \in ToRoomExcept(s, DocRoom(d))}
     /\ dbPending' = dbPending \cup {t}
     /\ last' = [Step("localChange", "broadcast", s, d) EXCEPT !.n = c]
     /\ UNCHANGED <<now, clientUser, redisClient, node, subscriptions, sockVars,
                    redisVars, redisQ, dbVars, localVars, hist>>

\* the timer fires: the update of documents with data.content is awaited
LocalChangeTimer(t) ==
  /\ t \in dbPending
  /\ t.kind = "localChange" /\ t.pc = "timer"
  /\ [t EXCEPT !.pc = "update"] \notin dbPending
  /\ dbPending' = (dbPending \ {t}) \cup {[t EXCEPT !.pc = "update"]}
  /\ emitted' = {}
  /\ last' = NoStep
  /\ UNCHANGED <<now, clientUser, redisClient, node, subscriptions, sockVars,
                 redisVars, redisQ, dbVars, localVars, hist>>

\* the database runs the update and answers; the timer callback ends
LocalChangeSave(t) ==
  /\ t \in dbPending
  /\ t.kind = "localChange" /\ t.pc = "update"
  /\ dbContent' = [dbContent EXCEPT ![t.doc] = t.data]
  /\ dbPending' = dbPending \ {t}
  /\ emitted' = {}
  /\ last' = [Step("localSave", "done", t.sock, t.doc) EXCEPT !.n = t.data]
  /\ UNCHANGED <<now, clientUser, redisClient, node, subscriptions, sockVars,
                 redisVars, redisQ, dbActive, dbChat, localVars, hist>>

\* ------------------------------------------------------------ server: GET /api/documents/:id
\* getCachedDocument(id) is awaited
GetDocument(d) ==
  /\ CanRequest
  /\ redisClient
  /\ Issue([NoTask EXCEPT !.kind = "get", !.pc = "get", !.doc = d,
                          !.hAck = hist.acked[d]])
  /\ emitted' = {}
  /\ last' = NoStep
  /\ UNCHANGED <<now, clientUser, redisClient, node, subscriptions, sockVars, redisVars, dbPending, dbVars,
                 localVars, hist>>

\* getCachedDocument: get answered.  A fresh cached document is served (the
\* chat messages are still to be read); otherwise the document is selected
\* from the database.
GetCachedDocument ==
  LET t == Head(redisQ)
      cachedDoc == ParseCached(rCache[t.doc])
      hit == CacheFresh(cachedDoc)
  IN
  /\ AtHead("get")
  /\ Resume(NoTask)
  /\ dbPending' =
       IF t.kind # "get" THEN dbPending
       ELSE IF hit THEN dbPending \cup {[t EXCEPT !.pc = "messages",
                                                    !.data = cachedDoc.content]}
       ELSE dbPending \cup {[t EXCEPT !.pc = "select",
                                        !.hTodo = IF Malformed(rCache[t.doc])
                                                  THEN {<<t.doc, "malformed">>}
                                                  ELSE {}]}
  /\ emitted' = {}
  /\ last' = [Step(t.kind, IF hit THEN "hit" ELSE "miss", t.sock, t.doc)
                EXCEPT !.n = IF hit THEN cachedDoc.content ELSE -1]
  /\ UNCHANGED <<now, clientUser, redisClient, node, subscriptions, sockVars, redisVars, dbVars, localVars,
                 hist>>

\* the database runs the select of the document
GetSelect(t) ==
  /\ t \in dbPending
  /\ t.kind = "get" /\ t.pc = "select"
  /\ dbPending' = (dbPending \ {t}) \cup {[t EXCEPT !.pc = "selected",
                                                    !.data = dbContent[t.doc]]}
  /\ emitted' = {}
  /\ last' = NoStep
  /\ UNCHANGED <<now, clientUser, redisClient, node, subscriptions, sockVars, redisVars, redisQ, dbVars,
                 localVars, hist>>

\* the select answered: document = docData; cacheDocument(id, document) is awaited
GetSelected(t) ==
  /\ t \in dbPending
  /\ t.kind = "get" /\ t.pc = "selected"
  /\ dbPending' = dbPending \ {t}
  /\ Issue([t EXCEPT !.pc = "setEx", !.ts = DateNow])
  /\ emitted' = {}
  /\ last' = NoStep
  /\ UNCHANGED <<now, clientUser, redisClient, node, subscriptions, sockVars, redisVars, dbVars, localVars,
                 hist>>

\* cacheDocument(documentId, documentData): setEx answered; GET goes on to
\* read the chat messages
CacheDocument ==
  LET t == Head(redisQ) IN
  /\ AtHead("setEx")
  /\ rCache' = [rCache EXCEPT ![t.doc] = SetEx(CacheTTL, CacheJSON(t.data, t.ts))]
  /\ Resume(NoTask)
  /\ dbPending' = IF t.kind = "get" THEN dbPending \cup {[t EXCEPT !.pc = "messages"]}
                  ELSE dbPending
  /\ hist' = [hist EXCEPT
                !.lastPut[t.doc] = [content |-> t.data, cachedAt |-> t.ts],
                !.changed[t.doc] = FALSE]
  /\ emitted' = {}
  /\ last' = NoStep
  /\ UNCHANGED <<now, clientUser, redisClient, node, subscriptions, sockVars, rPresence, rUserInfo, rCursors,
                 dbVars, localVars>>

\* the chat messages answered: res.json({document, messages})
GetRespond(t) ==
  /\ t \in dbPending
  /\ t.kind = "get" /\ t.pc = "messages"
  /\ dbPending' = dbPending \ {t}
  /\ emitted' = {Event("http", "response", NoUser, NoName, {}, NoCursors, t.data, NoRow)}
  /\ last' = [Step("get", "done", t.sock, t.doc)
                EXCEPT !.n = t.data, !.ack = t.hAck, !.pre = {x[2] : x \in t.hTodo}]
  /\ UNCHANGED <<now, clientUser, redisClient, node, subscriptions, sockVars, redisVars, redisQ, dbVars,
                 localVars, hist>>

\* ------------------------------------------------------------ server: PUT /api/documents/:id
\* Every write carries new content: the n-th content written stands for
\* itself, 0 for the content the document was created with.
Versions == 1..MaxVersion
PutPending(d) == {t.data : t \in {x \in dbPending : x.kind = "put" /\ x.doc = d}}
                   \cup {redisQ[i].data : i \in {j \in DOMAIN redisQ :
                           redisQ[j].kind = "put" /\ redisQ[j].doc = d}}
Written(d) == {hist.order[d][i] : i \in DOMAIN hist.order[d]}
\* position of a content in the order the writes were committed
CommitIndex(d, c) ==
  IF c \in Written(d) THEN CHOOSE i \in DOMAIN hist.order[d] : hist.order[d][i] = c
  ELSE 0

\* the update of documents is awaited
PutDocument(d, c) ==
  /\ CanRequest
  /\ redisClient
  /\ c \notin Written(d) \cup PutPending(d)
  /\ dbPending' = dbPending \cup {[NoTask EXCEPT !.kind = "put", !.pc = "update",
                                                 !.doc = d, !.data = c]}
  /\ emitted' = {}
  /\ last' = NoStep
  /\ UNCHANGED <<now, clientUser, redisClient, node, subscriptions, sockVars, redisVars, redisQ, dbVars,
                 localVars, hist>>

\* the database runs the update: the write is committed
PutUpdate(t) ==
  /\ t \in dbPending
  /\ t.kind = "put" /\ t.pc = "update"
  /\ dbContent' = [dbContent EXCEPT ![t.doc] = t.data]
  /\ hist' = [hist EXCEPT !.order[t.doc] = Append(@, t.data)]
  /\ dbPending' = (dbPending \ {t}) \cup
                    {[t EXCEPT !.pc = "updated", !.res = Len(hist.order[t.doc]) + 1]}
  /\ emitted' = {}
  /\ last' = NoStep
  /\ UNCHANGED <<now, clientUser, redisClient, node, subscriptions, sockVars, redisVars, redisQ, dbActive,
                 dbChat, localVars>>

\* the update answered: invalidateDocumentCache(id) is awaited, then res.json
PutUpdated(t) ==
  /\ t \in dbPending
  /\ t.kind = "put" /\ t.pc = "updated"
  /\ dbPending' = dbPending \ {t}
  /\ Issue([t EXCEPT !.pc = "del"])
  /\ emitted' = {}
  /\ last' = NoStep
  /\ UNCHANGED <<now, clientUser, redisClient, node, subscriptions, sockVars, redisVars, dbVars, localVars,
                 hist>>

\* ------------------------------------------------------------ documents.ts: PUT /:id
\* router.put('/:id') of documents.ts: the update of documents is awaited.
\* The module imports nothing from redis.js.
RouterPutDocument(d, c) ==
  /\ CanRequest
  /\ c \notin Written(d) \cup PutPending(d)
  /\ dbPending' = dbPending \cup {[NoTask EXCEPT !.kind = "routerPut", !.pc = "update",
                                                 !.doc = d, !.data = c]}
  /\ emitted' = {}
  /\ last' = NoStep
  /\ UNCHANGED <<now, clientUser, redisClient, node, subscriptions, sockVars, redisVars, redisQ, dbVars,
                 localVars, hist>>

\* the database runs the update: the write is committed
RouterPutUpdate(t) ==
  /\ t \in dbPending
  /\ t.kind = "routerPut" /\ t.pc = "update"
  /\ dbContent' = [dbContent EXCEPT ![t.doc] = t.data]
  /\ hist' = [hist EXCEPT !.order[t.doc] = Append(@, t.data)]
  /\ dbPending' = (dbPending \ {t}) \cup
                    {[t EXCEPT !.pc = "updated", !.res = Len(hist.order[t.doc]) + 1]}
  /\ emitted' = {}
  /\ last' = NoStep
  /\ UNCHANGED <<now, clientUser, redisClient, node, subscriptions, sockVars, redisVars, redisQ, dbActive,
                 dbChat, localVars>>

\* the update answered: res.json({ document })
RouterPutUpdated(t) ==
  /\ t \in dbPending
  /\ t.kind = "routerPut" /\ t.pc = "updated"
  /\ dbPending' = dbPending \ {t}
  /\ emitted' = {Event("http", "response", NoUser, NoName, {}, NoCursors, t.data, NoRow)}
  /\ last' = [Step("routerPut", "done", t.sock, t.doc) EXCEPT !.n = t.data]
  /\ UNCHANGED <<now, clientUser, redisClient, node, subscriptions, sockVars, redisVars, redisQ, dbVars,
                 localVars, hist>>

\* ------------------------------------------------------------ time
Tick(dt) ==
  /\ now + dt <= MaxTime
  /\ now' = now + dt
  /\ ExpireKeysAt(now')
  /\ emitted' = {}
  /\ last' = NoStep
  /\ UNCHANGED <<clientUser, redisClient, node, subscriptions, sockVars, redisQ, dbPending, dbVars,
                 localVars, hist>>

\* ------------------------------------------------------------ specifications
\* the server has started and the clients' sockets are connected
Booted ==
  /\ now = 0
  /\ subscriptions = [n \in Nodes |-> {}]
  /\ clientUser \in Logins
  /\ connected = [s \in Sockets |-> TRUE]
  /\ userId = [s \in Sockets |-> NoUser]
  /\ username = [s \in Sockets |-> NoName]
  /\ rooms = [s \in Sockets |-> {SidRoom(s)}]
  /\ rPresence = [d \in Docs |-> NoSetKey]
  /\ rUserInfo = [u \in Users |-> NoInfoKey]
  /\ rCursors = [d \in Docs |-> NoHashKey]
  /\ rCache = [d \in Docs |-> NoStrKey]
  /\ redisQ = <<>>
  /\ dbPending = {}
  /\ dbActive = [u \in Users |-> FALSE]
  /\ dbContent = [d \in Docs |-> 0]
  /\ dbChat = <<>>
  /\ documentRooms = [d \in Docs |-> NoRoom]
  /\ userCursors = [d \in Docs |-> NoCursorMap]
  /\ emitted = {}
  /\ last = NoStep
  /\ hist = [settled |-> [s \in Sockets |-> NoDoc],
             written |-> [d \in Docs |-> [u \in Users |-> -1]],
             lastPut |-> [d \in Docs |-> NoDocument],
             changed |-> [d \in Docs |-> FALSE],
             order |-> [d \in Docs |-> <<>>],
             acked |-> [d \in Docs |-> 0]]

\* initRedis connected
Init == Booted /\ redisClient = TRUE /\ node = OneNode

\* initRedis failed: redisClient = null
InitNoRedis ==
  Booted /\ redisClient = FALSE /\ node = OneNode /\ clientUser = OwnLogins

\* the Redis replies of document:join
JoinReplies ==
  \/ RemoveUserFromDocument
  \/ RemoveUserCursor
  \/ AddUserSAdd
  \/ AddUserExpirePresence
  \/ AddUserHSet
  \/ AddUserExpireInfo
  \/ GetActiveUsersSMembers
  \/ GetActiveUsersHGetAll
  \/ GetDocumentCursors

\* identification, room membership and disconnection
Membership ==
  \/ \E s \in Sockets : UserJoin(s)
  \/ \E t \in dbPending : UserJoinUpdated(t)
  \/ \E s \in Sockets, d \in Docs : DocumentJoinRejected(s, d)
  \/ \E s \in Sockets, d \in Docs : DocumentJoin(s, d)
  \/ JoinReplies
  \/ \E s \in Sockets : Disconnect(s)
  \/ \E s \in Sockets : InFlight = 0 /\ DisconnectAgain(s)
  \/ \E t \in dbPending : DisconnectUpdated(t)

Next == Membership

\* The socket server: connections identify, join and switch documents and
\* disconnect; their handlers interleave at every await.
Spec == Init /\ [][Next]_vars

\* a connection whose earlier events have all been handled
Quiet(s) ==
  /\ \A i \in DOMAIN redisQ : redisQ[i].sock # s
  /\ \A t \in dbPending : t.sock # s

\* Chat: two users; every connection sends its next event once the previous
\* one has been handled, and a join starts when the server is idle; the chat
\* handlers interleave with each other, with a join and with disconnections.
NextChat ==
  \/ \E s \in Sockets : Quiet(s) /\ UserJoin(s)
  \/ \E t \in dbPending : UserJoinUpdated(t)
  \/ \E s \in Sockets, d \in Docs : InFlight = 0 /\ DocumentJoin(s, d)
  \/ JoinReplies
  \/ \E s \in Sockets, d \in Docs, m \in Messages :
        Quiet(s) /\ ChatMessageIgnored(s, d, m)
  \/ \E s \in Sockets, d \in Docs, m \in Messages : Quiet(s) /\ ChatMessage(s, d, m)
  \/ \E t \in dbPending : ChatInsert(t)
  \/ \E t \in dbPending : ChatReply(t)
  \/ \E s \in Sockets : Disconnect(s)
  \/ \E t \in dbPending : DisconnectUpdated(t)

InitChat == Init /\ clientUser = OwnLogins

SpecChat == InitChat /\ [][NextChat]_vars

\* the document the REST clients and the editors work on
RestDocs == {"d1"}

\* The REST routes and the cache: reads and writes of a document and change
\* events of the connections, interleaved at every await.
NextRest ==
  \/ \E d \in RestDocs : GetDocument(d)
  \/ GetCachedDocument
  \/ \E t \in dbPending : GetSelect(t)
  \/ \E t \in dbPending : GetSelected(t)
  \/ CacheDocument
  \/ \E t \in dbPending : GetRespond(t)
  \/ \E d \in RestDocs, c \in Versions : PutDocument(d, c)
  \/ \E t \in dbPending : PutUpdate(t)
  \/ \E t \in dbPending : PutUpdated(t)
  \/ InvalidateDocumentCache
  \/ \E s \in Sockets : UserJoin(s)
  \/ \E t \in dbPending : UserJoinUpdated(t)
  \/ \E s \in Sockets, d \in RestDocs, c \in Contents : DocumentChangeIgnored(s, d, c)
  \/ \E s \in Sockets, d \in RestDocs, c \in Contents : DocumentChange(s, d, c)
  \/ PublishDocumentChange

SpecRest == InitChat /\ [][NextRest]_vars

\* The cache over time: reads and writes of a document while the clock advances
\* and Redis expires keys.
NextCache ==
  \/ \E d \in RestDocs : GetDocument(d)
  \/ GetCachedDocument
  \/ \E t \in dbPending : GetSelect(t)
  \/ \E t \in dbPending : GetSelected(t)
  \/ CacheDocument
  \/ \E t \in dbPending : GetRespond(t)
  \/ \E d \in RestDocs, c \in Versions : PutDocument(d, c)
  \/ \E t \in dbPending : PutUpdate(t)
  \/ \E t \in dbPending : PutUpdated(t)
  \/ InvalidateDocumentCache
  \/ \E dt \in TickSteps : Tick(dt)

SpecCache == InitChat /\ [][NextCache]_vars

\* The socket server with a database that may refuse the update of
\* users.is_active at a disconnect; every connection sends its next event
\* once its previous handler has ended.
NextLeave ==
  \/ \E s \in Sockets : Quiet(s) /\ UserJoin(s)
  \/ \E t \in dbPending : UserJoinUpdated(t)
  \/ \E s \in Sockets, d \in Docs : Quiet(s) /\ DocumentJoin(s, d)
  \/ JoinReplies
  \/ \E s \in Sockets : Quiet(s) /\ Disconnect(s)
  \/ \E t \in dbPending : DisconnectUpdated(t)
  \/ \E t \in dbPending : DisconnectUpdateFailed(t)

SpecLeave == InitChat /\ [][NextLeave]_vars

\* The cache with a second writer: the reads and writes of SpecCache while
\* another client of the Redis instance leaves malformed values in the key.
NextForeign ==
  \/ \E d \in RestDocs : GetDocument(d)
  \/ GetCachedDocument
  \/ \E t \in dbPending : GetSelect(t)
  \/ \E t \in dbPending : GetSelected(t)
  \/ CacheDocument
  \/ \E t \in dbPending : GetRespond(t)
  \/ \E d \in RestDocs, c \in Versions : InFlight = 0 /\ PutDocument(d, c)
  \/ \E t \in dbPending : PutUpdate(t)
  \/ \E t \in dbPending : PutUpdated(t)
  \/ InvalidateDocumentCache
  \/ \E d \in RestDocs, v \in MalformedValues : ForeignCacheWrite(d, v)
  \/ \E dt \in TickSteps : InFlight = 0 /\ Tick(dt)

SpecForeign == InitChat /\ [][NextForeign]_vars

\* the clock of the presence store advances by half a TTL
PresenceTicks == {150}

\* The presence store over time: the helpers of redis.js called for any
\* document and user, the writes one at a time and the reads at any moment,
\* while the clock advances and Redis expires keys.
NextPresence ==
  \/ \E d \in Docs, u \in Users : InFlight = 0 /\ CallAddUserToDocument(d, u)
  \/ \E d \in Docs, u \in Users : InFlight = 0 /\ CallRemoveUserFromDocument(d, u)
  \/ \E d \in Docs : CallGetDocumentActiveUsers(d)
  \/ AddUserSAdd
  \/ AddUserExpirePresence
  \/ AddUserHSet
  \/ AddUserExpireInfo
  \/ RemoveUserFromDocument
  \/ GetActiveUsersSMembers
  \/ GetActiveUsersHGetAll
  \/ \E dt \in PresenceTicks : Tick(dt)

SpecPresence == InitChat /\ [][NextPresence]_vars

\* The presence store with calls that take no time: the clock advances only
\* while no helper is in progress, the commands of a helper taking
\* milliseconds against the PresenceTTL seconds of an entry.
NextExpiry ==
  \/ \E d \in Docs, u \in Users : InFlight = 0 /\ CallAddUserToDocument(d, u)
  \/ \E d \in Docs, u \in Users : InFlight = 0 /\ CallRemoveUserFromDocument(d, u)
  \/ \E d \in Docs : CallGetDocumentActiveUsers(d)
  \/ \E d \in Docs : CallGetDocumentActiveCount(d)
  \/ AddUserSAdd
  \/ AddUserExpirePresence
  \/ AddUserHSet
  \/ AddUserExpireInfo
  \/ RemoveUserFromDocument
  \/ GetActiveUsersSMembers
  \/ GetActiveUsersHGetAll
  \/ GetDocumentActiveCount
  \/ \E dt \in PresenceTicks : InFlight = 0 /\ Tick(dt)

SpecExpiry == InitChat /\ [][NextExpiry]_vars

\* the clock of the cursor store advances by half a cursor TTL
CursorTicks == {30}

\* The cursor store over time: the cursor helpers of redis.js called for the
\* users of one document at any moment, while the clock advances and Redis
\* expires keys.
NextCursors ==
  \/ \E d \in RestDocs, u \in Users, p \in Positions : CallUpdateUserCursor(d, u, p)
  \/ \E d \in RestDocs, u \in Users : CallRemoveUserCursor(d, u)
  \/ \E d \in RestDocs : CallListCursors(d)
  \/ UpdateCursorHSet
  \/ UpdateCursorExpire
  \/ RemoveUserCursor
  \/ GetDocumentCursors
  \/ \E dt \in CursorTicks : Tick(dt)

SpecCursors == InitChat /\ [][NextCursors]_vars

\* The cursor store called with cursorData of any kind, the clock advancing
\* between the calls.
NextCursorStore ==
  \/ \E d \in RestDocs, u \in Users, p \in Positions : CallUpdateUserCursor(d, u, p)
  \/ \E d \in RestDocs, u \in Users, p \in Positions, ts \in SuppliedStamps :
       CallUpdateStampedCursor(d, u, p, ts)
  \/ \E d \in RestDocs, u \in Users : CallRemoveUserCursor(d, u)
  \/ \E d \in RestDocs : CallListCursors(d)
  \/ UpdateCursorHSet
  \/ UpdateCursorExpire
  \/ RemoveUserCursor
  \/ GetDocumentCursors
  \/ \E dt \in CursorTicks : InFlight = 0 /\ now < 2 * CursorTTL /\ Tick(dt)

SpecCursorStore == InitChat /\ [][NextCursorStore]_vars

\* The server whose initRedis failed: the connections identify, join, edit,
\* move their cursors and disconnect, and the helpers are called, while
\* redisClient is null.
NextNoRedis ==
  \/ \E s \in Sockets : UserJoin(s)
  \/ \E t \in dbPending : UserJoinUpdated(t)
  \/ \E s \in Sockets, d \in Docs : DocumentJoinRejected(s, d)
  \/ \E s \in Sockets, d \in Docs : DocumentJoinNoRedis(s, d)
  \/ \E s \in Sockets, d \in Docs, c \in Contents : DocumentChangeNoRedis(s, d, c)
  \/ \E s \in Sockets, d \in Docs, p \in Positions : CursorUpdateNoRedis(s, d, p)
  \/ \E op \in Helpers, d \in Docs : CallWithoutClient(op, d)
  \/ \E s \in Sockets : Disconnect(s)
  \/ \E t \in dbPending : DisconnectUpdated(t)

SpecNoRedis == InitNoRedis /\ [][NextNoRedis]_vars

\* one connection on each of two nodes
InitNodes == Booted /\ redisClient = TRUE /\ node = TwoNodes /\ clientUser = OwnLogins

\* the steps the servers and Redis take by themselves: a reply arrives and
\* the handler that awaited it goes on
NodeReplies ==
  \/ \E t \in dbPending : UserJoinUpdated(t)
  \/ JoinReplies
  \/ PublishDocumentChange
  \/ InvalidateDocumentCache
  \/ UpdateCursorHSet
  \/ UpdateCursorExpire
  \/ PublishCursorUpdate

\* the content and the cursor position the editors send
NodeInputs == {1}

\* Two nodes over one Redis: the connections identify, join the document,
\* edit it and move their cursors.  Redis takes the commands of both nodes in
\* the order they were sent.
NextNodes ==
  \/ \E s \in Sockets : Quiet(s) /\ UserJoin(s)
  \/ \E s \in Sockets, d \in RestDocs : InFlight = 0 /\ DocumentJoin(s, d)
  \/ \E s \in Sockets, d \in RestDocs, c \in NodeInputs : DocumentChange(s, d, c)
  \/ \E s \in Sockets, d \in RestDocs, p \in NodeInputs : CursorUpdate(s, d, p)
  \/ NodeReplies

SpecNodes == InitNodes /\ [][NextNodes]_vars

\* every command sent to Redis and every database call is answered, and the
\* event loop resumes the handler that awaits the answer
FairNodes == SpecNodes /\ WF_vars(NodeReplies)

\* socketHandlers.ts: the server that tracks the rooms in documentRooms
NextLocal ==
  \/ \E s \in Sockets : UserJoin(s)
  \/ \E t \in dbPending : UserJoinUpdated(t)
  \/ \E s \in Sockets, d \in Docs : DocumentJoinRejected(s, d)
  \/ \E s \in Sockets, d \in Docs : LocalDocumentJoin(s, d)
  \/ \E t \in dbPending : LocalJoinSelected(t)
  \/ \E s \in Sockets, d \in Docs, p \in Positions : LocalCursorUpdateIgnored(s, d, p)
  \/ \E s \in Sockets, d \in Docs, p \in Positions : LocalCursorUpdate(s, d, p)
  \/ \E s \in Sockets : Disconnect(s)
  \/ \E t \in dbPending : DisconnectUpdated(t)

SpecLocal == Init /\ [][NextLocal]_vars

\* what the socket handlers of socketHandlers.ts save: contents of their own,
\* distinct from the versions the REST clients write
LocalContents == {11}

\* The writers of documents.content over one database and one cache: the GET
\* and PUT routes of the server, the PUT route of documents.ts and the change
\* handler of socketHandlers.ts with its deferred save.
NextWriters ==
  \/ \E d \in RestDocs : GetDocument(d)
  \/ GetCachedDocument
  \/ \E t \in dbPending : GetSelect(t)
  \/ \E t \in dbPending : GetSelected(t)
  \/ CacheDocument
  \/ \E t \in dbPending : GetRespond(t)
  \/ \E d \in RestDocs, c \in Versions : PutDocument(d, c)
  \/ \E t \in dbPending : PutUpdate(t)
  \/ \E t \in dbPending : PutUpdated(t)
  \/ InvalidateDocumentCache
  \/ \E d \in RestDocs, c \in Versions : RouterPutDocument(d, c)
  \/ \E t \in dbPending : RouterPutUpdate(t)
  \/ \E t \in dbPending : RouterPutUpdated(t)
  \/ \E s \in Sockets : Quiet(s) /\ UserJoin(s)
  \/ \E t \in dbPending : UserJoinUpdated(t)
  \/ \E s \in Sockets, d \in RestDocs, c \in LocalContents :
        LocalDocumentChangeIgnored(s, d, c)
  \/ \E s \in Sockets, d \in RestDocs, c \in LocalContents : LocalDocumentChange(s, d, c)
  \/ \E t \in dbPending : LocalChangeTimer(t)
  \/ \E t \in dbPending : LocalChangeSave(t)

SpecWriters == InitChat /\ [][NextWriters]_vars

\* The editing session on one node: the connections identify, join the
\* document, edit it, move their cursors and chat; a connection sends its
\* next event without waiting for the handlers of its earlier ones.
NextEdit ==
  \/ \E s \in Sockets : Quiet(s) /\ UserJoin(s)
  \/ \E t \in dbPending : UserJoinUpdated(t)
  \/ \E s \in Sockets, d \in RestDocs : InFlight = 0 /\ DocumentJoin(s, d)
  \/ JoinReplies
  \/ \E s \in Sockets, d \in RestDocs, c \in NodeInputs : DocumentChangeIgnored(s, d, c)
  \/ \E s \in Sockets, d \in RestDocs, c \in NodeInputs : DocumentChange(s, d, c)
  \/ PublishDocumentChange
  \/ InvalidateDocumentCache
  \/ \E s \in Sockets, d \in RestDocs, p \in NodeInputs : CursorUpdateIgnored(s, d, p)
  \/ \E s \in Sockets, d \in RestDocs, p \in NodeInputs : CursorUpdate(s, d, p)
  \/ UpdateCursorHSet
  \/ UpdateCursorExpire
  \/ PublishCursorUpdate
  \/ \E s \in Sockets, d \in RestDocs, m \in Messages : ChatMessageIgnored(s, d, m)
  \/ \E s \in Sockets, d \in RestDocs, m \in Messages : ChatMessage(s, d, m)
  \/ \E t \in dbPending : ChatInsert(t)
  \/ \E t \in dbPending : ChatReply(t)

SpecEdit == InitChat /\ [][NextEdit]_vars

\* Connections whose clients may send user:join at any time, with any of the
\* userIds, before and after joining a document.
NextIdentify ==
  \/ \E s \in Sockets : Quiet(s) /\ UserJoin(s)
  \/ \E s \in Sockets, u \in Users : Quiet(s) /\ UserJoinAgain(s, u)
  \/ \E t \in dbPending : UserJoinUpdated(t)
  \/ \E s \in Sockets, d \in Docs : DocumentJoinRejected(s, d)
  \/ \E s \in Sockets, d \in Docs : InFlight = 0 /\ DocumentJoin(s, d)
  \/ JoinReplies

SpecIdentify == InitChat /\ [][NextIdentify]_vars

\* socketHandlers.ts with editing: the connections identify, join the
\* document, move their cursors and send changes, whose saves are deferred
\* by a timer.
NextLocalEdit ==
  \/ \E s \in Sockets : Quiet(s) /\ UserJoin(s)
  \/ \E t \in dbPending : UserJoinUpdated(t)
  \/ \E s \in Sockets, d \in RestDocs : LocalDocumentJoin(s, d)
  \/ \E t \in dbPending : LocalJoinSelected(t)
  \/ \E s \in Sockets, d \in RestDocs, p \in NodeInputs : LocalCursorUpdateIgnored(s, d, p)
  \/ \E s \in Sockets, d \in RestDocs, p \in NodeInputs : LocalCursorUpdate(s, d, p)
  \/ \E s \in Sockets, d \in RestDocs, c \in LocalContents :
        LocalDocumentChangeIgnored(s, d, c)
  \/ \E s \in Sockets, d \in RestDocs, c \in LocalContents : LocalDocumentChange(s, d, c)
  \/ \E t \in dbPending : LocalChangeTimer(t)
  \/ \E t \in dbPending : LocalChangeSave(t)
  \/ \E s \in Sockets : Disconnect(s)
  \/ \E t \in dbPending : DisconnectUpdated(t)

SpecLocalEdit == InitChat /\ [][NextLocalEdit]_vars

\* ------------------------------------------------------------ properties
\* the users of the connections currently in room d
BoundUsers(d) == {userId[s] : s \in {x \in Sockets : DocRoom(d) \in rooms[x]}}

\* C1: for every document d, documentRooms' member set for d is exactly the
\* set of users of the connections currently in room d.
C1_RegistryMatchesRooms ==
  \A d \in Docs : TrackedUsers(d) = BoundUsers(d)

\* C2: in every reachable state a connection is a member of at most one
\* document room, also while two of its document:join handlers are in flight.
C2_AtMostOneRoom ==
  \A s \in Sockets : Cardinality(DocRoomsOf(rooms[s])) <= 1

\* B's document:join has just completed; A, a connection of another user, has
\* been settled in that document since before B's handler started
C3_Premise(a) ==
  /\ last.h = "join" /\ last.pc = "done"
  /\ a \in last.pre
  /\ userId[a] # userId[last.sock]

C3_SnapshotHas(a) ==
  \E e \in emitted :
    /\ e.ev = "presence:update" /\ e.to = last.sock
    /\ \E x \in e.users : x.id = userId[a] /\ x.username = username[a]

C3_JoinedSentTo(a) ==
  \E e \in emitted :
    /\ e.ev = "user:joined" /\ e.to = a
    /\ e.userId = userId[last.sock] /\ e.username = username[last.sock]

\* C3: when user B's join of D completes while user A is joined to D, the
\* presence:update sent to B lists A and A's connection is sent user:joined
\* with B's userId and username.
C3_SnapshotAndJoined ==
  \A a \in Sockets :
    C3_Premise(a) =>
      /\ connected[last.sock] => C3_SnapshotHas(a)
      /\ C3_JoinedSentTo(a)

C3_Witness ==
  \E a \in Sockets :
    C3_Premise(a) /\ connected[last.sock] /\ C3_SnapshotHas(a) /\ C3_JoinedSentTo(a)

\* C4: once the disconnect handler of a connection that was joined to D (its
\* join completed, no other handler of it running, no other connection of the
\* same user) has finished, the connection is no longer in room D and its user
\* is no longer in D's presence set.
C4_DisconnectCleansUp ==
  \A d \in Docs :
    ( /\ last.h = "disconnect" /\ last.pc = "done"
      /\ d \in last.pre
      /\ Quiet(last.sock)
      /\ \A b \in Sockets \ {last.sock} : userId[b] # userId[last.sock] )
    => /\ DocRoom(d) \notin rooms[last.sock]
       /\ userId[last.sock] \notin SMembers(rPresence[d])

ChatEvents == {e \in emitted : e.ev = "chat:new_message"}
Persisted(row) == \E i \in DOMAIN dbChat : dbChat[i] = row

\* C8: every chat:new_message carries a row that is in chat_messages, with the
\* id the insert generated; and when the handler broadcasts, every connection
\* in the document's room, the sender included if it is in the room, is sent
\* that row.
C8_ChatNewAfterPersist ==
  /\ \A e \in ChatEvents : e.msg.id # DbError /\ Persisted(e.msg)
  /\ (last.h = "chat" /\ last.pc = "done") =>
        /\ last.n \in DOMAIN dbChat
        /\ \A x \in Sockets :
             DocRoom(last.doc) \in rooms[x] <=>
               \E e \in ChatEvents : e.to = x /\ e.msg = dbChat[last.n]
        /\ \A e \in ChatEvents : e.msg = dbChat[last.n]

C8_Witness ==
  /\ last.h = "chat" /\ last.pc = "done"
  /\ DocRoom(last.doc) \in rooms[last.sock]
  /\ \E x \in Sockets \ {last.sock} : DocRoom(last.doc) \in rooms[x]
  /\ \A x \in Sockets : \E e \in ChatEvents : e.to = x /\ e.msg = dbChat[last.n]

\* C9: when the insert of a chat message failed, the handler sends error to
\* the sender (if still connected) and chat:new_message to nobody, and no row
\* was stored for the message.
C9_ChatFailure ==
  (last.h = "chat" /\ last.pc = "failed") =>
    /\ connected[last.sock] =>
         \E e \in emitted : e.ev = "error" /\ e.to = last.sock
    /\ ChatEvents = {}

C9_Witness ==
  /\ last.h = "chat" /\ last.pc = "failed"
  /\ connected[last.sock]
  /\ \E x \in Sockets \ {last.sock} : DocRoom(last.doc) \in rooms[x]
  /\ DocRoom(last.doc) \in rooms[last.sock]
  /\ emitted = {ErrorEvent(last.sock)}

\* C5: a GET that started after a PUT of the document was answered returns
\* content at least as new as that PUT's (hist.order is the order in which the
\* writes were committed; last.ack the newest write answered when the GET
\* started).
C5_NoStaleRead ==
  (last.h = "get" /\ last.pc = "done") =>
    CommitIndex(last.doc, last.n) >= last.ack

\* the most recent cacheDocument of d with no invalidateDocumentCache after it
LastPut(d) == hist.lastPut[d]
WithinTTL(d) == LastPut(d) # NoDocument /\ DateNow - LastPut(d).cachedAt < CacheTTL * 1000

\* C6: a cache get of d less than 300 s after the most recent put, with no
\* invalidate since, returns exactly the content put; 300 s or more after
\* it, or after an invalidate not followed by a put, it is a miss.
C6_CacheGet ==
  (last.h = "get" /\ last.pc \in {"hit", "miss"}) =>
    IF WithinTTL(last.doc)
    THEN last.pc = "hit" /\ last.n = LastPut(last.doc).content
    ELSE last.pc = "miss"

\* a hit, some time after the put, on content that was written by a PUT
C6_Witness ==
  /\ last.h = "get" /\ last.pc = "hit"
  /\ now > 0
  /\ now * 1000 > LastPut(last.doc).cachedAt
  /\ last.n = LastPut(last.doc).content
  /\ last.n # 0

\* C7: when the document:change handler of an identified connection has
\* finished, the cache holds no entry for the document, and until the next
\* put no get of the document is a hit.
C7_ChangeInvalidates ==
  /\ (last.h = "change" /\ last.pc = "done") =>
        ParseCached(rCache[last.doc]) = NoDocument
  /\ \A d \in Docs : hist.changed[d] => rCache[d] = NoStrKey
  /\ (last.h = "get" /\ last.pc = "hit") => ~hist.changed[last.doc]

\* the change removed an entry that was there (last.pre)
C7_Witness ==
  /\ last.h = "change" /\ last.pc = "done"
  /\ last.pre = {last.doc}
  /\ rCache[last.doc] = NoStrKey

\* C10: a user whose presence in d was last written 300 s or more before
\* getDocumentActiveUsers(d) was called, and not written again since, is not
\* among the users it returns.
C10_StalePresenceAbsent ==
  (last.h = "listUsers" /\ last.pc = "done") =>
    \A u \in last.pre \cap StaleUsers(last.doc) :
      \A x \in last.users : x.id # u

\* the cursors a read of the cursor store has just returned: the result of a
\* getDocumentCursors call, or the cursors of a join's presence:update
ListedCursors ==
  (IF last.h = "listCursors" /\ last.pc = "done" THEN {last.cursors} ELSE {})
  \cup {e.cursors : e \in {x \in emitted : x.ev = "presence:update"}}

\* C11: getDocumentCursors never returns an entry whose timestamp lies 60 s or
\* more before the time of the read, also when the entry is still stored
\* because another user's update renewed the expiry of the cursors key.
C11_NoOldCursorListed ==
  \A cs \in ListedCursors : \A u \in Users :
    cs[u] # NoCursor => DateNow - cs[u].timestamp < CursorMaxAgeMs

\* a read that left out a stored entry of 60 s or more while it returned the
\* entry of the user whose update had kept the key alive
C11_Witness ==
  /\ last.h = "listCursors" /\ last.pc = "done"
  /\ \E u, v \in Users :
       /\ rCursors[last.doc].fields[u] # NoField
       /\ DateNow - JSONParse(rCursors[last.doc].fields[u]).timestamp >= CursorMaxAgeMs
       /\ last.cursors[u] = NoCursor
       /\ last.cursors[v] # NoCursor
\* the events of kind ev the last step sent to connection x
Received(x, ev) == {e \in emitted : e.to = x /\ e.ev = ev}

\* the Redis keys are all absent
StoreEmpty ==
  /\ \A d \in Docs : rPresence[d] = NoSetKey /\ rCursors[d] = NoHashKey
                      /\ rCache[d] = NoStrKey
  /\ \A u \in Users : rUserInfo[u] = NoInfoKey

UnboundEvent ==
  /\ last.h \in {"change", "cursor", "chat"}
  /\ last.pc \in {"ignored", "broadcast"}
  /\ userId[last.sock] = NoUser \/ DocRoom(last.doc) \notin rooms[last.sock]

\* C13: a change, cursor or chat event of a connection without identity, or
\* of one that has not joined the document named in the event, is rejected:
\* the connection gets an error event and nothing else is sent.
C13_UnboundEventRejected ==
  UnboundEvent =>
    /\ Received(last.sock, "error") # {}
    /\ \A e \in emitted : e.ev = "error" /\ e.to = last.sock
\* C14: a join request of a connection without identity gets an error event
\* and changes nothing: no room is joined, no presence entry or registry
\* entry is written, no call is started and no user:joined is sent.
C14_JoinWithoutIdentity ==
  [][last'.h = "join" /\ last'.pc = "rejected" =>
       /\ userId[last'.sock] = NoUser
       /\ \E e \in emitted' : e.ev = "error" /\ e.to = last'.sock
       /\ \A e \in emitted' : e.ev = "error" /\ e.to = last'.sock
       /\ UNCHANGED <<sockVars, redisVars, redisQ, dbPending, dbVars, localVars>>]_vars

\* a join request without identity for a document whose room another
\* connection is in has been answered with the error event
C14_Witness ==
  /\ last.h = "join" /\ last.pc = "rejected"
  /\ Received(last.sock, "error") # {}
  /\ \E x \in Sockets \ {last.sock} : DocRoom(last.doc) \in rooms[x]
\* the connections of node n that are in the room of document d
LocalMembers(n, d) == {s \in Sockets : node[s] = n /\ DocRoom(d) \in rooms[s]}

\* C15: at every moment a node is subscribed to the change and cursor
\* channels of document d if and only if it has at least one local member in
\* room d.
C15_SubscribedIffMember ==
  \A n \in Nodes, d \in Docs : n \in Subscribers(d) <=> LocalMembers(n, d) # {}
\* a change of document d with content c sent by connection s has been
\* accepted: it awaits publishDocumentChange
ChangeAccepted(s, d, c) ==
  \E i \in DOMAIN redisQ :
    /\ redisQ[i].kind = "change" /\ redisQ[i].pc = "publishChange"
    /\ redisQ[i].sock = s /\ redisQ[i].doc = d /\ redisQ[i].data = c

\* a cursor update of connection s for document d at position p has been
\* accepted: it awaits updateUserCursor or publishCursorUpdate
CursorAccepted(s, d, p) ==
  \E i \in DOMAIN redisQ :
    /\ redisQ[i].kind = "cursor"
    /\ redisQ[i].sock = s /\ redisQ[i].doc = d /\ redisQ[i].data = p

\* connection x, on another node than s, is in the room of document d
RemoteMember(x, s, d) == node[x] # node[s] /\ DocRoom(d) \in rooms[x]

\* C16: a change or cursor event accepted on one node for document d is
\* eventually delivered, with the same payload, to the members of room d that
\* are connected to another node (unless they leave the room first).
C16_RemoteDelivery ==
  \A s \in Sockets, x \in Sockets, d \in RestDocs :
    /\ \A c \in NodeInputs :
         (ChangeAccepted(s, d, c) /\ RemoteMember(x, s, d))
           ~> \/ \E e \in Received(x, "document:changed") :
                   e.userId = userId[s] /\ e.content = c
              \/ DocRoom(d) \notin rooms[x]
    /\ \A p \in NodeInputs :
         (CursorAccepted(s, d, p) /\ RemoteMember(x, s, d))
           ~> \/ \E e \in Received(x, "cursor:updated") :
                   e.cursors[userId[s]].position = p
              \/ DocRoom(d) \notin rooms[x]
\* a step creates the room of d only as the join of d by its first member,
\* and a step that takes the last user out of the room of d removes the room
\* and its cursor map
RoomLifecycle ==
  \A d \in Docs :
    /\ ~documentRooms[d].has /\ documentRooms'[d].has =>
         /\ last'.h = "localJoin" /\ last'.doc = d
         /\ documentRooms'[d].users = {userId[last'.sock]}
    /\ documentRooms[d].has /\ documentRooms'[d].users = {} =>
         ~documentRooms'[d].has /\ ~userCursors'[d].has

RoomState == <<[x \in Sockets |-> DocRoomsOf(rooms[x])], rPresence, rUserInfo,
               rCursors, documentRooms, userCursors>>

\* the step closes a connection that has no identity or is in no room
ClosesUnbound ==
  /\ last'.h = "disconnect" /\ last'.pc = "closed"
  /\ userId[last'.sock] = NoUser \/ DocRoomsOf(rooms[last'.sock]) = {}

\* what such a step does
ClosedQuietly ==
  /\ UNCHANGED RoomState
  /\ emitted' = {}
  /\ ~connected'[last'.sock]
  /\ userId[last'.sock] = NoUser => UNCHANGED <<dbPending, redisQ, dbVars>>

JoinPcs == {"sAdd", "expirePresence", "hSet", "expireInfo", "sMembers",
            "hGetAllUser", "hGetAllCursors"}

\* C20: in a room switch every step of the leave sequence for the old room
\* (leaving the room, presence removal, cursor removal, user:left) has been
\* taken before the first step of the join to the new room (joining the room,
\* presence write, snapshot, user:joined).
C20_LeaveBeforeJoin ==
  \A i \in DOMAIN redisQ :
    (redisQ[i].kind = "join" /\ redisQ[i].pc \in JoinPcs) => redisQ[i].hTodo = {}

\* a switch has just sent user:left to the old room and joined the new one
C20_Witness ==
  /\ last.h = "join" /\ last.pc = "left" /\ emitted # {}
  /\ \E i \in DOMAIN redisQ :
       /\ redisQ[i].kind = "join" /\ redisQ[i].sock = last.sock
       /\ redisQ[i].pc = "sAdd" /\ redisQ[i].doc # last.doc
       /\ DocRoom(redisQ[i].doc) \in rooms[last.sock]
       /\ DocRoom(last.doc) \notin rooms[last.sock]
\* C19: when a connection joined to room d1 joins room d2, the user is no
\* longer a registry member of d1 and has no cursor entry for d1, and the
\* remaining members of d1 get user:left for that user.  (socketHandlers.ts
\* leaves the old room and registers in the new one in one synchronous
\* block; its later step sends only user:joined and presence:update.)
C19_SwitchLeavesOldRoom ==
  (last.h = "localJoin" /\ last.pc = "tracked") =>
    \A d \in last.pre \ {last.doc} :
      /\ userId[last.sock] \notin TrackedUsers(d)
      /\ LocalCursors(d)[userId[last.sock]] = NoCursor
      /\ \A x \in ToRoomExcept(last.sock, DocRoom(d)) :
           \E e \in Received(x, "user:left") : e.userId = userId[last.sock]

\* the content the last committed REST write of d stored; 0 before any
LastWritten(d) ==
  IF hist.order[d] = <<>> THEN 0 ELSE hist.order[d][Len(hist.order[d])]

\* C21: when a path that commits a content write (PUT of the server, PUT of
\* documents.ts, the deferred save of socketHandlers.ts) reports success, the
\* cache holds no entry for the document; and every entry the cache holds is
\* one a cacheDocument stored, never one a writer changed.
C21_WriteInvalidates ==
  /\ (last.h \in {"put", "routerPut", "localSave"} /\ last.pc = "done") =>
        rCache[last.doc] = NoStrKey
  /\ \A d \in Docs :
       rCache[d] # NoStrKey => ParseCached(rCache[d]) = hist.lastPut[d]

\* the last step is one in which a change, cursor or chat event took effect:
\* it sent events, invalidated the cache or left a cursor entry
EditEffect ==
  /\ last.h \in {"change", "cursor", "chat", "localCursor", "localChange"}
  /\ \/ emitted # {}
     \/ last.h = "change" /\ last.pc = "done"
     \/ last.h = "cursor" /\ last.pc = "broadcast"
     \/ last.h = "localCursor" /\ last.pc = "done"

\* C22: a change, cursor or chat event takes effect (events sent to the room,
\* a cursor entry stored, the cache invalidated) only for the document whose
\* room the sending connection is in, whatever documentId the event names.
C22_OnlyOwnRoom ==
  EditEffect => DocRoom(last.doc) \in rooms[last.sock]

\* C23: once a connection has an identity, no step changes its userId or its
\* username: a user:join on an identified connection, joined to a room or
\* not, is not accepted.
C23_IdentityFixed ==
  [][\A s \in Sockets :
       userId[s] # NoUser => userId'[s] = userId[s] /\ username'[s] = username[s]]_vars

\* C24: when a connection in room d submits a change, the step that takes it
\* up sends document:changed, with the content and the sender's userId, to
\* exactly the other connections of the same node that are in room d: to each
\* of them, and not to the sender.
C24_ChangeToOthers ==
  (/\ last.h \in {"change", "localChange"} /\ last.pc = "broadcast"
   /\ DocRoom(last.doc) \in rooms[last.sock])
  => \A x \in Sockets :
       (\E e \in Received(x, "document:changed") :
          e.content = last.n /\ e.userId = userId[last.sock])
       <=> /\ x # last.sock
           /\ DocRoom(last.doc) \in rooms[x]
           /\ node[x] = node[last.sock]

\* a member's change reached the other member of the room
C24_Witness ==
  /\ last.h = "change" /\ last.pc = "broadcast"
  /\ DocRoom(last.doc) \in rooms[last.sock]
  /\ \E x \in Sockets \ {last.sock} :
       /\ DocRoom(last.doc) \in rooms[x]
       /\ Received(x, "document:changed") # {}
  /\ Received(last.sock, "document:changed") = {}

\* the last step completed a document:join
JoinDone == last.h \in {"join", "localJoin"} /\ last.pc = "done"

\* C25: presence:update is sent only by the step that completes a join and
\* only to the joining connection, which gets it (while connected);
\* user:joined is sent only by that step, carries the joiner's userId, and
\* goes to every other connection in the room and not to the joiner.
C25_JoinDelivery ==
  /\ \A e \in emitted :
       e.ev = "presence:update" => JoinDone /\ e.to = last.sock
  /\ \A e \in emitted :
       e.ev = "user:joined" =>
         /\ JoinDone
         /\ e.to # last.sock
         /\ DocRoom(last.doc) \in rooms[e.to]
         /\ e.userId = userId[last.sock]
  /\ JoinDone =>
       /\ connected[last.sock] => Received(last.sock, "presence:update") # {}
       /\ \A x \in Sockets \ {last.sock} :
            (DocRoom(last.doc) \in rooms[x] /\ node[x] = node[last.sock])
              => Received(x, "user:joined") # {}

\* a join completed in a room that had a member: the member got user:joined
\* and no snapshot, the joiner the snapshot and no user:joined
C25_Witness ==
  /\ JoinDone
  /\ Received(last.sock, "presence:update") # {}
  /\ Received(last.sock, "user:joined") = {}
  /\ \E x \in Sockets \ {last.sock} :
       /\ Received(x, "user:joined") # {}
       /\ Received(x, "presence:update") = {}

\* C26: the socket layer never writes documents.content: whatever change
\* events are handled, at once or later through a timer, the stored content
\* of every document is the one the last REST write committed (the content
\* it was created with when there was none).
C26_ChangeKeepsContent ==
  \A d \in Docs : dbContent[d] = LastWritten(d)

\* C27: the events of one connection take effect in the order it sent them:
\* when a change, cursor or chat event of a connection broadcasts or writes
\* to a store, no event the connection sent before it is still being handled.
C27_InSubmissionOrder ==
  (last.h \in {"change", "cursor", "chat"} /\ last.pc \in {"broadcast", "done"})
  => \A t \in PendingOf(last.sock) :
       t.kind \in {"change", "cursor", "chat"} => t.hSeq >= last.ack

\* the chat inserts the database has answered with a row and whose reply the
\* handler has not taken up yet
RepliesInFlight == {t \in dbPending : t.kind = "chat" /\ t.pc = "reply" /\ t.res # DbError}

\* C28 as stated: chat:new_message events of a document are broadcast in the
\* order in which the rows were persisted: when a row is broadcast, no row of
\* the document that was persisted before it is still to be broadcast.
C28_PersistOrder ==
  (last.h = "chat" /\ last.pc = "done") =>
    \A t \in RepliesInFlight : t.doc = last.doc => t.res > last.n

\* C28, amended: a row is broadcast in the very step in which its insert's
\* reply reaches the handler, to every connection in the room at once, and in
\* no other step; so the members receive the rows in the order in which the
\* replies reach the server, whatever the order of submission.
C28_ReplyOrder ==
  [][/\ (last'.h = "chat" /\ last'.pc = "done") =>
          /\ \E t \in RepliesInFlight :
               /\ t.res = last'.n /\ t.doc = last'.doc
               /\ dbPending' = dbPending \ {t}
          /\ \A x \in Sockets :
               DocRoom(last'.doc) \in rooms[x] =>
                 \E e \in emitted' :
                   e.ev = "chat:new_message" /\ e.to = x /\ e.msg.id = last'.n
     /\ (\E e \in emitted' : e.ev = "chat:new_message") =>
          (last'.h = "chat" /\ last'.pc = "done")]_vars

\* a message was broadcast to the room while a message the same connection
\* had submitted before it was still waiting for the database
C28_Witness ==
  /\ last.h = "chat" /\ last.pc = "done"
  /\ \E x \in Sockets \ {last.sock} : Received(x, "chat:new_message") # {}
  /\ \E t \in dbPending :
       /\ t.kind = "chat" /\ t.sock = last.sock /\ t.doc = last.doc
       /\ t.hSeq < last.ack

\* the users whose presence in d was written less than PresenceTTL seconds
\* ago and not removed since
FreshUsers(d) ==
  {u \in Users : /\ hist.written[d][u] # -1
                 /\ now - hist.written[d][u] < PresenceTTL}

\* C29: when addUserToDocument(d, u) returns at time t the presence of u in d
\* expires at t + 300 s whatever time was left on the earlier entry, not at
\* the sum of the two windows; and until then, unless u is removed from d,
\* getDocumentActiveUsers(d) lists u.
C29_AddRestartsExpiry ==
  /\ (last.h = "addUser" /\ last.pc = "done") =>
       /\ rPresence[last.doc].exp = now + PresenceTTL
       /\ \A u \in last.users : /\ u \in SMembers(rPresence[last.doc])
                                /\ rUserInfo[u].exp = now + PresenceTTL
  /\ (last.h = "listUsers" /\ last.pc = "done") =>
       \A u \in FreshUsers(last.doc) : \E x \in last.users : x.id = u

\* addUserToDocument(d, u) has returned while 150 s were left on the earlier
\* entry of u in d
C29_Witness ==
  /\ last.h = "addUser" /\ last.pc = "done"
  /\ last.n = 150
  /\ rPresence[last.doc].exp = now + PresenceTTL

\* a user written 150 s ago is listed
C29_WitnessListed ==
  /\ last.h = "listUsers" /\ last.pc = "done"
  /\ \E u \in FreshUsers(last.doc) :
       /\ now - hist.written[last.doc][u] = 150
       /\ \E x \in last.users : x.id = u

\* C30: getDocumentActiveCount(d) returns the number of users whose presence
\* in d was written and has been neither removed nor left unwritten for
\* 300 s, also when other users have joined d in the meantime.
C30_CountsFreshUsers ==
  (/\ last.h = "count" /\ last.pc = "done"
   /\ \A u \in Users : ~Writing(last.doc, u)) =>
    last.n = Cardinality(FreshUsers(last.doc))

\* the users with no presence entry in d: removed, or never added, and with
\* no addUserToDocument(d, u) in progress
RemovedUsersIn(h, q, d) ==
  {u \in Users :
     /\ h.written[d][u] = -1
     /\ ~\E i \in DOMAIN q :
          /\ q[i].doc = d /\ q[i].uid = u
          /\ q[i].pc \in {"sAdd", "expirePresence", "hSet", "expireInfo"}}
RemovedUsers(d) == RemovedUsersIn(hist, redisQ, d)

\* C31: removeUserFromDocument(d, u) takes u out of the presence of d whatever
\* time to live remained and changes nothing else: the other members of d, the
\* presence of the other documents and the user-info records stay as they
\* were; until the next addUserToDocument(d, u) getDocumentActiveUsers(d)
\* does not list u and getDocumentActiveCount(d) does not count u.
C31_RemoveOnlyThatEntry ==
  [][/\ (last'.h = "removeUser" /\ last'.pc = "done") =>
          /\ \A u \in last'.users :
               SMembers(rPresence'[last'.doc]) = SMembers(rPresence[last'.doc]) \ {u}
          /\ SMembers(rPresence'[last'.doc]) # {} =>
               rPresence'[last'.doc].exp = rPresence[last'.doc].exp
          /\ \A d \in Docs \ {last'.doc} : rPresence'[d] = rPresence[d]
          /\ rUserInfo' = rUserInfo
     /\ (last'.h = "listUsers" /\ last'.pc = "done") =>
          \A u \in RemovedUsersIn(hist', redisQ', last'.doc) : \A x \in last'.users : x.id # u
     /\ (last'.h = "count" /\ last'.pc = "done") =>
          last'.n <= Cardinality(Users \ RemovedUsersIn(hist', redisQ', last'.doc))]_vars

\* u has been removed from a document while its entry had time to live left
\* and another user stays present there
C31_Witness ==
  /\ last.h = "removeUser" /\ last.pc = "done"
  /\ SMembers(rPresence[last.doc]) # {}
  /\ \A u \in last.users : /\ u \notin SMembers(rPresence[last.doc])
                           /\ rUserInfo[u] # NoInfoKey
                           /\ rUserInfo[u].exp > now

\* C32: updateUserCursor(d, u, cursorData) called at time t stores for u in d
\* the cursorData with timestamp t, whatever timestamp the cursorData carried
\* and whatever cursor u had before, and the step that stores it leaves the
\* cursors of the other users of d and of the other documents as they were.
C32_CursorUpsert ==
  [][/\ (/\ redisQ # <<>> /\ Head(redisQ).pc = "hSetCursor"
         /\ now' = now /\ rCursors' # rCursors) =>
          LET t == Head(redisQ) IN
          /\ JSONParse(rCursors'[t.doc].fields[t.uid]) =
               [userId |-> t.uid, username |-> t.uname, position |-> t.data,
                timestamp |-> t.ts]
          /\ \A d \in Docs, v \in Users :
               <<d, v>> # <<t.doc, t.uid>> =>
                 rCursors'[d].fields[v] = rCursors[d].fields[v]
     /\ (/\ Len(redisQ') > Len(redisQ)
         /\ redisQ'[Len(redisQ')].pc = "hSetCursor") =>
          redisQ'[Len(redisQ')].ts = DateNow]_vars

\* a cursor has been stored with the time of the call although the caller's
\* cursorData carried another timestamp, and another user's cursor is there
C32_Witness ==
  \E i \in DOMAIN redisQ :
    LET t == redisQ[i] IN
    /\ t.kind = "setCursor" /\ t.pc = "expireCursors"
    /\ t.res # 0 /\ t.res # t.ts
    /\ rCursors[t.doc].fields[t.uid] = CursorJSON(t.uid, t.uname, t.data, t.ts)
    /\ \E v \in Users \ {t.uid} : rCursors[t.doc].fields[v] # NoField

\* C33: a GET that finds in the cache a value that cannot be parsed or that
\* has no cachedAt takes it for a miss, reads the document from the database
\* and answers with content the database held, not with the cached value and
\* not with an error.
C33_MalformedIsMiss ==
  /\ (last.h = "get" /\ last.pc \in {"hit", "miss"} /\ Malformed(rCache[last.doc])) =>
       /\ last.pc = "miss"
       /\ \E t \in dbPending : t.kind = "get" /\ t.pc = "select" /\ t.doc = last.doc
  /\ (last.h = "get" /\ last.pc = "done" /\ "malformed" \in last.pre) =>
       /\ last.n \in {0} \cup Written(last.doc)
       /\ \A e \in emitted : e.ev = "response" /\ e.content = last.n
       /\ emitted # {}

\* a GET has answered with the database content after it found a malformed
\* value in the cache
C33_Witness ==
  /\ last.h = "get" /\ last.pc = "done"
  /\ "malformed" \in last.pre
  /\ last.n = dbContent[last.doc]
  /\ emitted # {}

\* C34: when the update that marks the user inactive has failed at a
\* disconnect, the connection has left the document it was joined to, the
\* user's presence and cursor entries of that document are removed, and the
\* update is not sent again.
C34_FailedUpdateAfterLeave ==
  \A d \in Docs :
    ( /\ last.h = "disconnect" /\ last.pc = "failed"
      /\ d \in last.pre
      /\ \A b \in Sockets \ {last.sock} : userId[b] # userId[last.sock] )
    => /\ DocRoom(d) \notin rooms[last.sock]
       /\ userId[last.sock] \notin SMembers(rPresence[d])
       /\ rCursors[d].fields[userId[last.sock]] = NoField
       /\ \A t \in dbPending : ~(t.kind = "disconnect" /\ t.sock = last.sock)

\* the disconnect of connection s has been handled: the socket is closed and
\* its disconnect handler has ended
DisconnectHandled(s) ==
  /\ ~connected[s]
  /\ \A t \in dbPending : ~(t.kind = "disconnect" /\ t.sock = s)

\* C35: once the disconnect of a connection has been handled, no handler of
\* that connection that was suspended at the time writes a presence entry,
\* puts the socket into a room or sends user:joined for it.
C35_NothingAfterDisconnect ==
  [][\A s \in Sockets :
       DisconnectHandled(s) =>
         /\ DocRoomsOf(rooms'[s]) \subseteq DocRoomsOf(rooms[s])
         /\ ~(/\ redisQ # <<>>
              /\ Head(redisQ).sock = s /\ Head(redisQ).kind = "join"
              /\ now' = now
              /\ <<rPresence', rUserInfo'>> # <<rPresence, rUserInfo>>)
         /\ ~(/\ last'.h = "join" /\ last'.sock = s
              /\ \E e \in emitted' : e.ev = "user:joined")]_vars

\* C36: when two connections of one user are joined to document d and one of
\* them has left d, or has disconnected, the user is still in the presence of
\* d as long as the other connection is joined.  (The connection that left
\* has no other handler in progress: its own join of d had completed.)
C36_SharedUserStaysPresent ==
  \A a, b \in Sockets : \A d \in Docs :
    ( /\ a # b
      /\ userId[a] # NoUser /\ userId[a] = userId[b]
      /\ connected[a] /\ hist.settled[a] = d /\ DocRoom(d) \in rooms[a]
      /\ last.sock = b
      /\ Cardinality(PendingOf(b)) <= 1
      /\ \/ last.h = "join" /\ last.pc = "left" /\ last.doc = d
         \/ last.h = "disconnect" /\ last.pc = "done" /\ d \in last.pre )
    => userId[a] \in SMembers(rPresence[d])

\* C37: when a disconnect has marked a user inactive in the users table and
\* no handler is in progress any more, no connection that is still connected
\* is identified as that user.
C37_InactiveOnlyWhenGone ==
  ( /\ last.h = "disconnect" /\ last.pc = "done"
    /\ InFlight = 0
    /\ userId[last.sock] # NoUser
    /\ ~dbActive[userId[last.sock]] )
  => \A b \in Sockets : connected[b] => userId[b] # userId[last.sock]

\* the identify handlers of connection s that wait for the database
Identifying(s) == {t \in dbPending : t.kind = "identify" /\ t.sock = s}

\* C38: while the database write of a connection's identify handler is
\* pending the connection has its userId and username, and no document:join
\* of the connection is rejected as unauthenticated.
C38_IdentityBeforeSuspend ==
  /\ \A s \in Sockets :
       Identifying(s) # {} => userId[s] # NoUser /\ username[s] # NoName
  /\ (last.h = "join" /\ last.pc = "rejected") => Identifying(last.sock) = {}

\* a join of a connection is in progress while its identify handler still
\* waits for the database
C38_Witness ==
  \E s \in Sockets :
    /\ Identifying(s) # {}
    /\ \E i \in DOMAIN redisQ : redisQ[i].kind = "join" /\ redisQ[i].sock = s
    /\ \E d \in Docs : DocRoom(d) \in rooms[s]

\* what getDocumentActiveUsers(d) returns when all its reads see this state
ListNow(d) == UNION {PushUser({}, rUserInfo[u]) : u \in SMembers(rPresence[d])}
\* every member of the presence set of d has its user-info record
InfoComplete(d) == \A u \in SMembers(rPresence[d]) : rUserInfo[u].id # NoUser

MapsPaired == \A d \in Docs : userCursors[d].has <=> documentRooms[d].has

\* C40: userCursors has an entry for document d exactly when documentRooms
\* has one, and once the last member of d has left, by joining another
\* document or by disconnecting, neither map has an entry for d.
C40_MapsFollowMembers ==
  /\ MapsPaired
  /\ \A d \in Docs :
       (InFlight = 0 /\ documentRooms[d].has) =>
         \E s \in Sockets : DocRoom(d) \in rooms[s]
====
